---- MODULE Spec2Model ----
(***************************************************************************)
(* Resume-to-portfolio pipeline (backend/apps/portfolio/services).         *)
(*                                                                         *)
(* The module models one PipelineService instance: its registered progress *)
(* callbacks and one process() run at a time, cut into atomic steps at the *)
(* await points of the coroutine.  The collaborators (rate limiter         *)
(* decision, file validator, OCR call, analysis call, component selection, *)
(* database saves, progress callbacks) answer nondeterministically with    *)
(* the outcomes their interfaces allow: a value or a raised exception.     *)
(***************************************************************************)
EXTENDS Integers, Sequences, FiniteSets, TLC

(***************************************************************************)
(* Bounds of the model.                                                    *)
(***************************************************************************)
MaxObservers == 2      \* progress callbacks that can be registered
MaxNameLen == 2        \* length of the uploaded filename, in characters
MaxRetryAfter == 2     \* retry_after_seconds values a denied check reports
MaxAttemptCap == 4     \* hard cap on the retry counter (never reached by the code)
MaxRetries == 2        \* largest max_retries of a RetryHandler called directly
MaxClock == 3          \* time.time() runs from 0 to MaxClock, in whole seconds
MaxKeys == 4           \* API keys a GeminiExtractionService is constructed with
max_requests == 3          \* RateLimiter(max_requests, window_seconds,
window_seconds == 3        \*   burst_limit, burst_window_seconds) as the model
burst_limit == 2           \*   constructs it (the service passes 10, 60, 5, 10)
burst_window_seconds == 1
hash_window_seconds == 2   \* self._hash_window_seconds (the service sets 300)

(***************************************************************************)
(* Small helpers.                                                          *)
(***************************************************************************)
Min(a, b) == IF a <= b THEN a ELSE b
Max(a, b) == IF a >= b THEN a ELSE b
Last(s) == s[Len(s)]
Range(s) == {s[i] : i \in 1..Len(s)}

RECURSIVE Pow2(_)
Pow2(n) == IF n = 0 THEN 1 ELSE 2 * Pow2(n - 1)

None == "None"                    \* None where a str is expected
NoneRec == [type |-> "NoneType"]   \* None where an object is expected

(***************************************************************************)
(* Enumerations of models.py and pipeline_service.py.                      *)
(***************************************************************************)
ProfessionalCategory == {"creative", "technical", "corporate", "hybrid"}
ThemePalette == {"neon_blue", "emerald_green", "cyber_pink"}
PipelineStage == {"validation", "ocr", "ai_analysis", "component_selection",
                  "layout_generation", "complete", "error"}

\* variant of ClampProgress with the upper limit off by one
ClampProgress_Below100(p) == Max(0, Min(99, p))

\* PipelineProgress.__post_init__ : progress clamped to [0, 100]
ClampProgress(p) == Max(0, Min(100, p))

PipelineProgress(stage, progress) ==
    [stage |-> stage, progress |-> ClampProgress(progress)]

\* _update_processing_status.status_map
StatusOf(stage) ==
    CASE stage = "validation" -> "uploading"
      [] stage = "ocr" -> "ocr_processing"
      [] stage = "ai_analysis" -> "ai_analysis"
      [] stage = "component_selection" -> "component_selection"
      [] stage = "layout_generation" -> "layout_generation"
      [] stage = "complete" -> "complete"
      [] stage = "error" -> "error"
      [] OTHER -> "pending"

(***************************************************************************)
(* InputSanitizationService.sanitize_filename.  A filename is a sequence   *)
(* of one-character strings.                                               *)
(***************************************************************************)
MAX_FILENAME_LENGTH == 255
FilenameChars == {"a", ".", "/", "\\", "<", " "}
\* UNSAFE_FILENAME_CHARS = [<>:"/\\|?*\x00-\x1f]
UNSAFE_FILENAME_CHARS == {"<", ">", ":", "\"", "/", "\\", "|", "?", "*"}
Whitespace == {" "}

RECURSIVE LStrip(_)
LStrip(s) == IF s # <<>> /\ Head(s) \in Whitespace THEN LStrip(Tail(s)) ELSE s

RECURSIVE RStrip(_)
RStrip(s) ==
    IF s # <<>> /\ Last(s) \in Whitespace
    THEN RStrip(SubSeq(s, 1, Len(s) - 1)) ELSE s

\* str.strip()
Strip(s) == RStrip(LStrip(s))

\* str.replace('..', ''): non-overlapping occurrences, left to right
RECURSIVE RemoveDotDot(_)
RemoveDotDot(s) ==
    IF Len(s) < 2 THEN s
    ELSE IF s[1] = "." /\ s[2] = "." THEN RemoveDotDot(SubSeq(s, 3, Len(s)))
    ELSE <<s[1]>> \o RemoveDotDot(Tail(s))

\* str.split(sep)[-1]: what follows the last occurrence of sep
SplitLast(s, sep) ==
    IF \E i \in 1..Len(s) : s[i] = sep
    THEN LET i == CHOOSE j \in 1..Len(s) :
                      s[j] = sep /\ \A k \in (j + 1)..Len(s) : s[k] # sep
         IN  SubSeq(s, i + 1, Len(s))
    ELSE s

\* re.sub(UNSAFE_FILENAME_CHARS, '_', s)
ReplaceUnsafe(s) ==
    [i \in 1..Len(s) |-> IF s[i] \in UNSAFE_FILENAME_CHARS THEN "_" ELSE s[i]]

SanitizationResult(safe, err, msg, value, warns) ==
    [is_safe |-> safe, error |-> err, error_message |-> msg,
     sanitized_value |-> value, warnings |-> warns]

\* sanitize_filename applied to a str (or None); a non-str argument raises
\* at .strip() and is handled by the caller (see ProcessBegin)
sanitize_filename(filename) ==
    IF filename.type = "none" \/ filename.val = <<>>
    THEN SanitizationResult(FALSE, "INVALID_CHARACTERS",
                            "Filename is required", <<>>, {})
    ELSE
    LET stripped == Strip(filename.val)
        noPath == SplitLast(SplitLast(RemoveDotDot(stripped), "/"), "\\")
        w1 == IF noPath # stripped THEN {"path_removed"} ELSE {}
        replaced == ReplaceUnsafe(noPath)
        w2 == IF replaced # noPath THEN {"unsafe_replaced"} ELSE {}
    IN  IF Len(stripped) > MAX_FILENAME_LENGTH
        THEN SanitizationResult(FALSE, "CONTENT_TOO_LONG",
                                "Filename exceeds maximum length", <<>>, {})
        ELSE IF replaced = <<>> \/ replaced = <<".">>
        THEN SanitizationResult(FALSE, "INVALID_CHARACTERS",
                                "Filename contains only invalid characters",
                                <<>>, {})
        ELSE IF Head(replaced) = "."
        THEN SanitizationResult(TRUE, "NONE", "", <<"_">> \o Tail(replaced),
                                w1 \cup w2 \cup {"leading_dot"})
        ELSE SanitizationResult(TRUE, "NONE", "", replaced, w1 \cup w2)

(***************************************************************************)
(* InputSanitizationService.validate_options.  A dict is a function from   *)
(* its keys; a value is a record with its Python type.                     *)
(***************************************************************************)
VALID_THEMES == {"auto", "neon_blue", "emerald_green", "cyber_pink"}
VALID_COMPONENT_STYLES == {"modern", "classic", "minimal"}

Str(v) == [type |-> "str", val |-> v]
NonStr == [type |-> "int", val |-> "7"]

\* str.lower() and str.strip() on the option strings of the model
Lower(s) ==
    CASE s = "Cyber_Pink" -> "cyber_pink"
      [] s = " AUTO " -> " auto "
      [] s = "Retro" -> "retro"
      [] OTHER -> s

StripStr(s) ==
    CASE s = " auto " -> "auto"
      [] s = " AUTO " -> "AUTO"
      [] OTHER -> s

DictGet(d, key, default) == IF key \in DOMAIN d THEN d[key] ELSE default

EmptyDict == [k \in {} |-> Str("")]

\* variant of ValidateDict that keeps an invalid string choice
ValidateDict_KeepInvalid(options) ==
    LET theme_pref == DictGet(options, "theme_preference", Str("auto"))
        comp_style == DictGet(options, "component_style", Str("modern"))
        t == StripStr(Lower(theme_pref.val))
        c == StripStr(Lower(comp_style.val))
        themeOk == theme_pref.type = "str" /\ t \in VALID_THEMES
        styleOk == comp_style.type = "str" /\ c \in VALID_COMPONENT_STYLES
    IN  SanitizationResult(
            TRUE, "NONE", "",
            [k \in {"theme_preference", "component_style"} |->
                IF k = "theme_preference"
                THEN (IF theme_pref.type = "str" THEN t ELSE "auto")
                ELSE (IF comp_style.type = "str" THEN c ELSE "modern")],
            (IF themeOk THEN {} ELSE {"theme_preference"})
              \cup (IF styleOk THEN {} ELSE {"component_style"}))

\* validate_options on a dict argument (non-dict: see validate_options)
ValidateDict(options) ==
    LET theme_pref == DictGet(options, "theme_preference", Str("auto"))
        comp_style == DictGet(options, "component_style", Str("modern"))
        t == StripStr(Lower(theme_pref.val))
        c == StripStr(Lower(comp_style.val))
        themeOk == theme_pref.type = "str" /\ t \in VALID_THEMES
        styleOk == comp_style.type = "str" /\ c \in VALID_COMPONENT_STYLES
    IN  SanitizationResult(
            TRUE, "NONE", "",
            [k \in {"theme_preference", "component_style"} |->
                IF k = "theme_preference"
                THEN (IF themeOk THEN t ELSE "auto")
                ELSE (IF styleOk THEN c ELSE "modern")],
            (IF themeOk THEN {} ELSE {"theme_preference"})
              \cup (IF styleOk THEN {} ELSE {"component_style"}))

\* options: [type |-> "dict", val |-> function] or a non-dict value
validate_options(options) ==
    IF options.type # "dict"
    THEN SanitizationResult(FALSE, "INVALID_CHARACTERS",
                            "Options must be a dictionary", EmptyDict, {})
    ELSE ValidateDict(options.val)


(***************************************************************************)
(* error_recovery_service.py: exceptions, ErrorClassifier, RetryHandler.   *)
(* An exception is a record of its class and its message; a message is     *)
(* given by the set of indicator substrings its lower-cased text contains. *)
(***************************************************************************)
\* the classes each modelled exception class is an instance of
Bases(kind) ==
    CASE kind = "ConnectionResetError" -> {"ConnectionResetError", "ConnectionError", "OSError", "Exception"}
      [] kind = "ConnectionError" -> {"ConnectionError", "OSError", "Exception"}
      [] kind = "TimeoutError" -> {"TimeoutError", "OSError", "Exception"}
      [] kind = "asyncio.TimeoutError" -> {"asyncio.TimeoutError", "Exception"}
      [] kind = "AttributeError" -> {"AttributeError", "Exception"}
      [] kind = "DatabaseError" -> {"DatabaseError", "Exception"}
      [] OTHER -> {kind, "Exception"}

IsInstance(error, classes) == Bases(error.kind) \cap classes # {}

\* lower-cased message -> indicator substrings it contains
MessagePatterns(msg) ==
    CASE msg = "429 too many requests" -> {"429", "too many requests"}
      [] msg = "rate limit hit: request timeout" -> {"rate limit", "timeout"}
      [] msg = "service unavailable" -> {"service unavailable"}
      [] msg = "read timeout" -> {"timeout"}
      [] OTHER -> {}

Contains(msg, pattern) == pattern \in MessagePatterns(msg)

TRANSIENT_EXCEPTIONS ==
    {"ConnectionError", "ConnectionResetError", "ConnectionRefusedError",
     "TimeoutError", "asyncio.TimeoutError", "BrokenPipeError"}
TRANSIENT_MESSAGES ==
    {"connection reset", "connection refused", "timeout",
     "temporarily unavailable", "service unavailable", "too many connections",
     "network unreachable", "host unreachable"}
RATE_LIMIT_MESSAGES ==
    {"rate limit", "too many requests", "quota exceeded", "429", "throttl"}

\* variant of classify that tests the transient messages first
classify_TransientFirst(error) ==
    IF IsInstance(error, TRANSIENT_EXCEPTIONS) THEN "transient"
    ELSE IF \E p \in TRANSIENT_MESSAGES : Contains(error.msg, p) THEN "transient"
    ELSE IF \E p \in RATE_LIMIT_MESSAGES : Contains(error.msg, p) THEN "rate_limited"
    ELSE "unknown"

\* ErrorClassifier.classify
classify(error) ==
    IF IsInstance(error, TRANSIENT_EXCEPTIONS) THEN "transient"
    ELSE IF \E p \in RATE_LIMIT_MESSAGES : Contains(error.msg, p) THEN "rate_limited"
    ELSE IF \E p \in TRANSIENT_MESSAGES : Contains(error.msg, p) THEN "transient"
    ELSE "unknown"

\* RetryConfig; delays in milliseconds
RetryConfig(maxRetries, base, maxDelay, strategy, retryable) ==
    [max_retries |-> maxRetries, base_delay |-> base, max_delay |-> maxDelay,
     strategy |-> strategy, jitter_percent |-> 10,
     retryable_exceptions |-> retryable]

\* variant of should_retry without the max_retries test
should_retry_NoLimit(config, error, attempt) ==
    IF IsInstance(error, config.retryable_exceptions) THEN TRUE
    ELSE classify(error) \in {"transient", "rate_limited"}

\* variant of should_retry that allows one retry too many
should_retry_OffByOne(config, error, attempt) ==
    IF attempt > config.max_retries THEN FALSE
    ELSE IF IsInstance(error, config.retryable_exceptions) THEN TRUE
    ELSE classify(error) \in {"transient", "rate_limited"}

\* variant of should_retry that does not retry rate-limited errors
should_retry_TransientOnly(config, error, attempt) ==
    IF attempt >= config.max_retries THEN FALSE
    ELSE IF IsInstance(error, config.retryable_exceptions) THEN TRUE
    ELSE classify(error) = "transient"

\* variant of should_retry that gives an Unknown error one retry
should_retry_UnknownOnce(config, error, attempt) ==
    IF attempt >= config.max_retries THEN FALSE
    ELSE IF IsInstance(error, config.retryable_exceptions) THEN TRUE
    ELSE \/ classify(error) \in {"transient", "rate_limited"}
         \/ classify(error) = "unknown" /\ attempt = 0

\* RetryHandler.should_retry
should_retry(config, error, attempt) ==
    IF attempt >= config.max_retries THEN FALSE
    ELSE IF IsInstance(error, config.retryable_exceptions) THEN TRUE
    ELSE classify(error) \in {"transient", "rate_limited"}

\* variant of calculate_delay without the cap at max_delay_seconds
calculate_delay_Uncapped(config, attempt, rnd) ==
    LET base_delay == config.base_delay * Pow2(attempt)
    IN  CASE config.strategy = "fixed" -> config.base_delay
          [] config.strategy = "exponential" -> base_delay
          [] OTHER -> Min(base_delay
                          + (base_delay * config.jitter_percent * rnd) \div 10000,
                          config.max_delay)

\* variant of calculate_delay whose jitter ignores jitter_factor
calculate_delay_FullJitter(config, attempt, rnd) ==
    LET base_delay == config.base_delay * Pow2(attempt)
        delay == CASE config.strategy = "fixed" -> config.base_delay
                   [] config.strategy = "exponential" -> base_delay
                   [] OTHER -> base_delay + (base_delay * rnd) \div 100
    IN  Min(delay, config.max_delay)

\* RetryHandler.calculate_delay; rnd is random.random() in percent (0..99)
calculate_delay(config, attempt, rnd) ==
    LET base_delay == config.base_delay * Pow2(attempt)
        delay == CASE config.strategy = "fixed" -> config.base_delay
                   [] config.strategy = "exponential" -> base_delay
                   [] OTHER -> base_delay
                               + (base_delay * config.jitter_percent * rnd) \div 10000
    IN  Min(delay, config.max_delay)

\* PipelineService.__init__: self.ocr_retry_handler
OcrRetryConfig ==
    RetryConfig(2, 1000, 30000, "exponential",
                {"ConnectionError", "TimeoutError", "asyncio.TimeoutError"})


(***************************************************************************)
(* Candidate profiles (dicts) and component selection.                     *)
(***************************************************************************)
SoftSkills == <<"Communication", "Problem Solving", "Teamwork">>
DefaultAchievements == <<"Years Experience", "Projects">>

\* PipelineService._analyze_resume: the profile the analysis step returns
\* (confidence in percent; the fresh uuid 'id' is left out)
AnalyzedProfile(extracted_text) ==
    [k \in {"name", "title", "professionalCategory", "skills", "experience",
            "projects", "extractedText", "confidence", "summary",
            "achievements"} |->
        CASE k = "name" -> "Portfolio User"
          [] k = "title" -> "Professional"
          [] k = "professionalCategory" -> "hybrid"
          [] k = "skills" -> SoftSkills
          [] k = "experience" -> <<>>
          [] k = "projects" -> <<>>
          [] k = "extractedText" -> extracted_text
          [] k = "confidence" -> 50
          [] k = "summary" -> "Professional portfolio generated from resume."
          [] k = "achievements" -> DefaultAchievements]

\* ErrorRecoveryService.get_default_fallback_profile
get_default_fallback_profile ==
    [k \in {"name", "title", "professionalCategory", "skills", "experience",
            "projects", "extractedText", "confidence", "summary",
            "achievements"} |->
        CASE k = "name" -> "Portfolio User"
          [] k = "title" -> "Professional"
          [] k = "professionalCategory" -> "hybrid"
          [] k = "skills" -> SoftSkills
          [] k = "experience" -> <<>>
          [] k = "projects" -> <<>>
          [] k = "extractedText" -> ""
          [] k = "confidence" -> 30
          [] k = "summary" -> "Professional portfolio generated with default settings."
          [] k = "achievements" -> DefaultAchievements]

\* a dict without one key
DictWithout(d, key) == [k \in DOMAIN d \ {key} |-> d[k]]

Component(type, props, order, theme) ==
    [type |-> type, props |-> props, order |-> order, theme |-> theme]

HeroPrismProps(theme, title, name, subtitle) ==
    [k \in {"theme", "title", "name", "subtitle"} |->
        CASE k = "theme" -> theme [] k = "title" -> title
          [] k = "name" -> name [] k = "subtitle" -> subtitle]

ExpTimeline(profile) ==
    Component("tool_exp_timeline",
              [k \in {"experiences"} |-> DictGet(profile, "experience", <<>>)],
              1, "")

SkillsRadar(profile) ==
    Component("tool_skills_radar",
              [k \in {"skills"} |-> DictGet(profile, "skills", <<>>)], 2, "")

\* variant of StatsBento that repeats the order of the skills component
StatsBento_Order2(profile) ==
    Component("tool_stats_bento",
              [k \in {"achievements"} |-> DictGet(profile, "achievements", <<>>)],
              2, "")

StatsBento(profile) ==
    Component("tool_stats_bento",
              [k \in {"achievements"} |-> DictGet(profile, "achievements", <<>>)],
              3, "")

\* PipelineService._get_creative_components
GetCreativeComponents(profile) ==
    << Component("tool_hero_prism",
                 HeroPrismProps("sunset",
                                DictGet(profile, "title", "Creative Professional"),
                                DictGet(profile, "name", "Portfolio User"),
                                DictGet(profile, "summary", "")),
                 0, "sunset"),
       Component("tool_exp_masonry",
                 [k \in {"experiences", "projects"} |->
                     IF k = "experiences"
                     THEN DictGet(profile, "experience", <<>>)
                     ELSE DictGet(profile, "projects", <<>>)],
                 1, ""),
       Component("tool_skills_dots",
                 [k \in {"skills", "maxLevel"} |->
                     IF k = "skills" THEN DictGet(profile, "skills", <<>>)
                     ELSE 5],
                 2, ""),
       StatsBento(profile) >>

\* PipelineService._get_technical_components
GetTechnicalComponents(profile) ==
    << Component("tool_hero_terminal",
                 [k \in {"theme", "commands", "name", "title"} |->
                     CASE k = "theme" -> "matrix"
                       [] k = "commands" -> "whoami"
                       [] k = "name" -> DictGet(profile, "name", "Developer")
                       [] k = "title" ->
                            DictGet(profile, "title", "Software Engineer")],
                 0, "matrix"),
       ExpTimeline(profile), SkillsRadar(profile), StatsBento(profile) >>

\* PipelineService._get_corporate_components
GetCorporateComponents(profile) ==
    << Component("tool_hero_prism",
                 HeroPrismProps("ocean",
                                DictGet(profile, "title", "Professional"),
                                DictGet(profile, "name", "Portfolio User"),
                                DictGet(profile, "summary", "")),
                 0, "ocean"),
       ExpTimeline(profile), SkillsRadar(profile), StatsBento(profile) >>

\* PipelineService._get_hybrid_components
GetHybridComponents(profile) ==
    << Component("tool_hero_prism",
                 HeroPrismProps("ocean",
                                DictGet(profile, "title", "Professional"),
                                DictGet(profile, "name", "Portfolio User"),
                                DictGet(profile, "summary", "")),
                 0, "ocean"),
       ExpTimeline(profile), SkillsRadar(profile), StatsBento(profile) >>

\* PipelineService._select_components
SelectComponents(candidate_profile) ==
    LET category == DictGet(candidate_profile, "professionalCategory", "hybrid")
    IN  CASE category = "creative" -> GetCreativeComponents(candidate_profile)
          [] category = "technical" -> GetTechnicalComponents(candidate_profile)
          [] category = "corporate" -> GetCorporateComponents(candidate_profile)
          [] OTHER -> GetHybridComponents(candidate_profile)

\* ErrorRecoveryService.get_default_fallback_components
get_default_fallback_components ==
    << Component("tool_hero_prism",
                 HeroPrismProps("ocean", "Professional", "Portfolio User",
                                "Welcome to my portfolio"),
                 0, "ocean"),
       Component("tool_exp_timeline", [k \in {"experiences"} |-> <<>>], 1, ""),
       Component("tool_skills_radar", [k \in {"skills"} |-> SoftSkills], 2, ""),
       Component("tool_stats_bento",
                 [k \in {"achievements"} |-> DefaultAchievements], 3, "") >>

\* ComponentSelection.clean: required_props
required_props(type) ==
    CASE type = "tool_hero_prism" -> {"title", "name"}
      [] type = "tool_hero_terminal" -> {"commands", "name", "title"}
      [] type = "tool_exp_timeline" -> {"experiences"}
      [] type = "tool_exp_masonry" -> {"experiences"}
      [] type = "tool_skills_dots" -> {"skills"}
      [] type = "tool_skills_radar" -> {"skills"}
      [] type = "tool_stats_bento" -> {"achievements"}
      [] OTHER -> {}

\* variant of FallbackHeroTerminal whose props lack 'commands'
FallbackHeroTerminal_NoCommands(name, title) ==
    Component("tool_hero_terminal",
              [k \in {"theme", "name", "title"} |->
                  CASE k = "theme" -> "matrix"
                    [] k = "name" -> name
                    [] k = "title" -> title],
              0, "matrix")

\* get_fallback_components_for_category: the technical hero component
FallbackHeroTerminal(name, title) ==
    Component("tool_hero_terminal",
              [k \in {"theme", "commands", "name", "title"} |->
                  CASE k = "theme" -> "matrix"
                    [] k = "commands" -> << <<"whoami -> ", name>>,
                                           <<"cat title.txt -> ", title>>,
                                           <<"ls skills/ -> [loading...]">> >>
                    [] k = "name" -> name
                    [] k = "title" -> title],
              0, "matrix")

\* ErrorRecoveryService.get_fallback_components_for_category
get_fallback_components_for_category(category, profile) ==
    LET name == DictGet(profile, "name", "Portfolio User")
        title == DictGet(profile, "title", "Professional")
        skills == DictGet(profile, "skills", <<"Communication", "Problem Solving">>)
        experience == DictGet(profile, "experience", <<>>)
        achievements == DictGet(profile, "achievements", DefaultAchievements)
        timeline == Component("tool_exp_timeline",
                              [k \in {"experiences"} |-> experience], 1, "")
        radar == Component("tool_skills_radar", [k \in {"skills"} |-> skills],
                           2, "")
        bento == Component("tool_stats_bento",
                           [k \in {"achievements"} |-> achievements], 3, "")
    IN  CASE category = "creative" ->
             << Component("tool_hero_prism",
                          HeroPrismProps("sunset", title, name,
                                         DictGet(profile, "summary",
                                                 "Creative professional")),
                          0, "sunset"),
                Component("tool_exp_masonry",
                          [k \in {"experiences", "projects"} |->
                              IF k = "experiences" THEN experience
                              ELSE DictGet(profile, "projects", <<>>)],
                          1, ""),
                Component("tool_skills_dots",
                          [k \in {"skills", "maxLevel"} |->
                              IF k = "skills" THEN skills ELSE 5],
                          2, ""),
                bento >>
          [] category = "technical" ->
             << FallbackHeroTerminal(name, title), timeline, radar, bento >>
          [] OTHER ->
             << Component("tool_hero_prism",
                          HeroPrismProps("ocean", title, name,
                                         DictGet(profile, "summary",
                                                 "Welcome to my portfolio")),
                          0, "ocean"),
                timeline, radar, bento >>

\* PipelineService._select_theme
SelectTheme(candidate_profile, options) ==
    LET theme_pref == DictGet(options, "theme_preference", "auto")
        category == DictGet(candidate_profile, "professionalCategory", "hybrid")
    IN  IF theme_pref # "auto" THEN theme_pref
        ELSE CASE category = "creative" -> "cyber_pink"
               [] category = "technical" -> "neon_blue"
               [] category = "corporate" -> "emerald_green"
               [] category = "hybrid" -> "neon_blue"
               [] OTHER -> "neon_blue"


(***************************************************************************)
(* RetryResult / FallbackConfig and the two ways execute_with_retry ends.  *)
(***************************************************************************)
RetryResult(success, value, attempts, total, err, category) ==
    [success |-> success, value |-> value, attempts |-> attempts,
     total_delay |-> total, last_error |-> err, error_category |-> category]

NoError == [kind |-> None, msg |-> ""]

\* execute_with_retry, 'return RetryResult(success=True, value=result, ...)'
RetrySucceeded(value, attempt, total) ==
    RetryResult(TRUE, value, attempt + 1, total, NoError, "unknown")

\* variant of RetryExhausted that prefers the fixed value to the factory
RetryExhausted_ValueFirst(fallback, attempt, total, err, category) ==
    IF fallback # NoneRec /\ fallback.enable_fallback
    THEN RetryResult(TRUE, fallback.fallback_value,
                     attempt + 1, total, err, category)
    ELSE RetryResult(FALSE, NoneRec, attempt + 1, total, err, category)

\* variant of RetryExhausted whose fallback outcome carries no last_error
RetryExhausted_DropsError(fallback, attempt, total, err, category) ==
    IF fallback # NoneRec /\ fallback.enable_fallback
    THEN RetryResult(TRUE,
                     IF fallback.has_factory THEN fallback.factory_value
                     ELSE fallback.fallback_value,
                     attempt + 1, total, NoError, "unknown")
    ELSE RetryResult(FALSE, NoneRec, attempt + 1, total, err, category)

\* execute_with_retry after the loop: fallback or failure
RetryExhausted(fallback, attempt, total, err, category) ==
    IF fallback # NoneRec /\ fallback.enable_fallback
    THEN RetryResult(TRUE,
                     IF fallback.has_factory THEN fallback.factory_value
                     ELSE fallback.fallback_value,
                     attempt + 1, total, err, category)
    ELSE RetryResult(FALSE, NoneRec, attempt + 1, total, err, category)

(***************************************************************************)
(* OCR results and the pipeline's result object.                           *)
(***************************************************************************)
OCRResult(success, full_text, msg) ==
    [success |-> success, full_text |-> full_text, error_message |-> msg]

\* _run_ocr_with_retry: fallback_result
OcrFallbackResult ==
    OCRResult(FALSE, "", "OCR failed after retries, using empty text fallback")

OcrFallbackConfig ==
    [enable_fallback |-> TRUE, fallback_value |-> OcrFallbackResult,
     has_factory |-> FALSE, factory_value |-> NoneRec]

\* what the OCR call can return
OcrReturns ==
    { OCRResult(TRUE, "resume text", ""),
      OCRResult(FALSE, "", "OCR processing failed") }

\* what the OCR call can raise
OcrErrors ==
    { [kind |-> "ConnectionError", msg |-> "connection lost"],
      [kind |-> "RuntimeError", msg |-> "429 too many requests"],
      [kind |-> "RuntimeError", msg |-> "bad image"] }

DatabaseError == [kind |-> "DatabaseError", msg |-> "database is unavailable"]

\* error messages are tuples of their parts
Msg(text) == <<text>>
RateLimitMessage(seconds) ==
    <<"Rate limit exceeded. Please try again in ", seconds, " seconds.">>

\* PipelineResult; timed: processing_time_ms was measured for this result
PipelineResult(success, msg, profile, comps, thm, rec, timed) ==
    [success |-> success, error_message |-> msg, candidate_profile |-> profile,
     components |-> comps, theme |-> thm, has_record |-> rec, timed |-> timed]

FailureResult(msg, timed) ==
    PipelineResult(FALSE, msg, EmptyDict, <<>>, "neon_blue", FALSE, timed)

(***************************************************************************)
(* Inputs of a process() call.                                             *)
(***************************************************************************)
RECURSIVE SeqsUpTo(_, _)
SeqsUpTo(S, n) ==
    IF n = 0 THEN {<<>>}
    ELSE LET shorter == SeqsUpTo(S, n - 1)
         IN  shorter \cup {Append(q, c) : q \in shorter, c \in S}

Filenames ==
    {[type |-> "str", val |-> q] : q \in SeqsUpTo(FilenameChars, MaxNameLen)}
      \cup {[type |-> "none", val |-> <<>>], [type |-> "int", val |-> <<>>]}

ThemeInputs == {Str(" AUTO "), Str("Cyber_Pink"), Str("dark"), NonStr}
StyleInputs == {Str("Retro")}

OptionDicts ==
    {EmptyDict}
      \cup {[k \in {"theme_preference"} |-> t] : t \in ThemeInputs}
      \cup {[k \in {"theme_preference", "component_style"} |->
                IF k = "theme_preference" THEN t ELSE c] :
            t \in ThemeInputs, c \in StyleInputs}

OptionInputs ==
    {[type |-> "dict", val |-> d] : d \in OptionDicts}
      \cup {[type |-> "none", val |-> EmptyDict],
            [type |-> "list", val |-> EmptyDict]}

\* 'options = options or {}'
OrEmptyDict(options) ==
    IF options.type = "none" \/ (options.type = "dict" /\ options.val = EmptyDict)
    THEN [type |-> "dict", val |-> EmptyDict]
    ELSE options

ClientIdentifiers == {None, "", "10.0.0.1"}

RateLimitResult(allowed, retry_after) ==
    [allowed |-> allowed, retry_after_seconds |-> retry_after]
RateLimitResults ==
    {RateLimitResult(TRUE, 0)}
      \cup {RateLimitResult(FALSE, r) : r \in 1..MaxRetryAfter}

FileValidationResult(valid, msg, file_type) ==
    [is_valid |-> valid, error_message |-> msg, file_type |-> file_type]
FileValidationResults ==
    { FileValidationResult(TRUE, "", "pdf"),
      FileValidationResult(FALSE, "File is empty", ""),
      FileValidationResult(FALSE, "Unsupported file format", "exe") }

\* categories the analysis step can report ("" stands for an unknown value)
AnalysisCategories == ProfessionalCategory \cup {"freelance"}

(***************************************************************************)
(* State.                                                                  *)
(***************************************************************************)
VARIABLES
    pc,                 \* position of the process() coroutine
    callbacks,          \* self._progress_callbacks, in registration order
    cbIndex,            \* _emit_progress: next callback to call (0: no loop)
    cbErrors,           \* callbacks that raised for the event being delivered
    events,             \* PipelineProgress objects handed to the callback loop
    deliveries,         \* every callback invocation, in the order made
    rate_limit_result,  \* locals of process() ...
    filename_result,    \* is_safe and error_message of the sanitize result
    sanitized_filename, \* <<>> before it is set and after its last use
    sanitized_options,
    validation_result,
    resume,
    processing_result,
    ocr_result,
    extracted_text,
    candidate_profile,
    components,
    theme,
    attempt,            \* locals of RetryHandler.execute_with_retry ...
    total_delay,
    last_error,
    error_category,
    result,             \* the PipelineResult returned, NoneRec while running
    calls,              \* collaborator invocations (and raises) of this run
    raised,             \* the exception the 'except Exception' clause caught
    persist_failed,     \* a database call of this run has raised
    config,             \* RetryHandler called directly: self.config
    fallback,           \* ... the fallback argument of execute_with_retry
    hdl_pc,             \* ... position of execute_with_retry
    op_calls,           \* ... invocations of the operation
    factory_calls,      \* ... invocations of fallback.fallback_factory
    delay,              \* ... the local 'delay' (0 before the first retry)
    hdl_result,         \* ... the RetryResult returned, NoneRec before
    sync,               \* locals and result of an execute_sync_with_retry call
    partial_profile,    \* component selection called directly: the profile
    category,           \* ... the category argument (None before the call)
    selected_by,        \* ... the function that was called
    options_arg,        \* ... the options argument of the call
    options_result,     \* ... what validate_options returned
    clock,              \* time.time(), in whole seconds
    threads,            \* threads calling a RateLimiter / validate_content
    submitters,         \* identifiers the validate_content calls are made for
    th_pc,              \* ... position of each thread's call
    th_now,             \* ... the local 'now' of the call in progress
    th_arg,             \* ... the arguments of the call in progress
    th_result,          \* ... what the thread's last call returned
    requests,           \* RateLimiter: self._requests
    blocked_until,      \* RateLimiter: self._blocked_until
    admitted,           \* history: 'now' of the checks allowed, ascending
    manual_block,       \* history: the block in force was set by block()
    last_check,         \* history: 'now' of the latest check (-1: none)
    quiet_check,        \* history: the latest check came window_seconds or
                        \*   more after the one before, no block() in force
    recent_hashes,      \* InputSanitizationService: self._recent_hashes
    accepts,            \* history: per identifier and hash, the latest two
                        \*   times at which a submission was recorded
    api_keys,           \* GeminiExtractionService: self.api_keys
    current_key_index,  \* GeminiExtractionService: self.current_key_index
    extraction          \* the _extract_with_gemini call: its position, its
                        \*   loop variable, its result, and the history of
                        \*   the keys it called the API with

vars == <<pc, callbacks, cbIndex, cbErrors, events, deliveries,
          rate_limit_result, filename_result, sanitized_filename,
          sanitized_options, validation_result, resume, processing_result, ocr_result,
          extracted_text, candidate_profile, components, theme, attempt,
          total_delay,
          last_error, error_category, result, calls, raised, persist_failed,
          config, fallback, hdl_pc, op_calls, factory_calls, delay,
          hdl_result, sync, partial_profile, category, selected_by, options_arg,
          options_result,
          clock, threads, submitters, th_pc, th_now, th_arg, th_result, requests,
          blocked_until, admitted, manual_block, last_check, quiet_check,
          recent_hashes, accepts, api_keys, current_key_index, extraction>>

inputLocals == <<rate_limit_result, filename_result, sanitized_options>>
dbVars == <<resume, processing_result>>
ocrLocals == <<ocr_result, extracted_text>>
stageLocals == <<candidate_profile, components, theme>>
runLocals == <<inputLocals, sanitized_filename, validation_result, dbVars,
               ocrLocals, stageLocals>>
retryLocals == <<attempt, total_delay, last_error, error_category>>
emitVars == <<cbIndex, cbErrors, events>>
outcome == <<result, raised, persist_failed>>
handlerVars == <<config, fallback, hdl_pc, op_calls, factory_calls, delay,
                 hdl_result, sync>>
selectionVars == <<partial_profile, category, selected_by, options_arg,
                   options_result>>
threadVars == <<th_pc, th_now, th_arg, th_result>>
limiterVars == <<requests, blocked_until, admitted, manual_block, last_check,
                 quiet_check>>
duplicateVars == <<recent_hashes, accepts>>
geminiVars == <<api_keys, current_key_index, extraction>>
guardVars == <<clock, threads, submitters, threadVars, limiterVars,
               duplicateVars, geminiVars>>
libraryVars == <<handlerVars, selectionVars, guardVars>>

\* execute_sync_with_retry: 'attempt = 0', 'total_delay = 0.0',
\* 'last_error = None', 'error_category = ErrorCategory.UNKNOWN'
SyncLocals ==
    [attempt |-> 0, total_delay |-> 0, last_error |-> NoError,
     error_category |-> "unknown", result |-> NoneRec]

NoCalls == [validate |-> 0, ocr |-> 0, ocr_raised |-> 0, analysis |-> 0,
            analysis_raised |-> 0, analysis_error |-> NoError,
            selection |-> 0]

FreshRun ==
    /\ cbIndex = 0
    /\ cbErrors = {}
    /\ events = <<>>
    /\ deliveries = <<>>
    /\ rate_limit_result = NoneRec
    /\ filename_result = NoneRec
    /\ sanitized_filename = <<>>
    /\ sanitized_options = EmptyDict
    /\ validation_result = NoneRec
    /\ resume = NoneRec
    /\ processing_result = NoneRec
    /\ ocr_result = NoneRec
    /\ extracted_text = ""
    /\ candidate_profile = EmptyDict
    /\ components = <<>>
    /\ theme = None
    /\ attempt = 0
    /\ total_delay = 0
    /\ last_error = NoError
    /\ error_category = "unknown"
    /\ result = NoneRec
    /\ calls = NoCalls
    /\ raised = NoError
    /\ persist_failed = FALSE

\* no RetryHandler call and no component selection call has been made directly
HandlerUnused ==
    /\ config = NoneRec
    /\ fallback = NoneRec
    /\ hdl_pc = "unused"
    /\ op_calls = 0
    /\ factory_calls = 0
    /\ delay = 0
    /\ hdl_result = NoneRec
    /\ sync = SyncLocals

SelectionUnused ==
    /\ partial_profile = EmptyDict
    /\ category = None
    /\ selected_by = None
    /\ options_arg = NoneRec
    /\ options_result = NoneRec

\* no thread is calling the RateLimiter or validate_content directly
LimiterUnused ==
    /\ requests = <<>>
    /\ blocked_until = <<>>
    /\ admitted = <<>>
    /\ manual_block = FALSE
    /\ last_check = -1
    /\ quiet_check = FALSE

DuplicateUnused ==
    /\ recent_hashes = <<>>
    /\ accepts = <<>>

\* no GeminiExtractionService has been constructed
GeminiUnused ==
    /\ api_keys = <<>>
    /\ current_key_index = 0
    /\ extraction = NoneRec

GuardUnused ==
    /\ GeminiUnused
    /\ clock = 0
    /\ threads = {}
    /\ submitters = {}
    /\ th_pc = <<>>
    /\ th_now = <<>>
    /\ th_arg = <<>>
    /\ th_result = <<>>
    /\ LimiterUnused
    /\ DuplicateUnused

Init ==
    /\ pc = "idle"
    /\ callbacks = <<>>
    /\ FreshRun
    /\ HandlerUnused
    /\ SelectionUnused
    /\ GuardUnused


(***************************************************************************)
(* add_progress_callback and the callback loop of _emit_progress.          *)
(***************************************************************************)
\* callbacks are named by their registration number
AddProgressCallback ==
    /\ pc = "idle"
    /\ Len(callbacks) < MaxObservers
    /\ callbacks' = Append(callbacks, Len(callbacks) + 1)
    /\ UNCHANGED libraryVars
    /\ UNCHANGED <<pc, emitVars, deliveries, runLocals, retryLocals, result,
                   calls, raised, persist_failed>>

\* variant of NextCallback in which a raising callback ends the loop
NextCallback_StopOnRaise(i, callbackRaised) ==
    IF callbackRaised \/ i = Len(callbacks) THEN 0 ELSE i + 1

\* 'for callback in self._progress_callbacks' with the try/except around
\* each call: the index of the callback called after callback i
NextCallback(i, callbackRaised) ==
    IF i = Len(callbacks) THEN 0 ELSE i + 1

\* hand a new PipelineProgress to the callback loop
Emit(stage, progress) ==
    /\ events' = Append(events, PipelineProgress(stage, progress))
    /\ cbIndex' = IF callbacks = <<>> THEN 0 ELSE 1
    /\ cbErrors' = {}

\* one iteration of the loop: the callback is called and returns or raises
InvokeCallback ==
    /\ cbIndex # 0
    /\ \E callbackRaised \in BOOLEAN :
          /\ deliveries' = Append(deliveries,
                                  [observer |-> callbacks[cbIndex],
                                   event |-> Len(events)])
          /\ cbErrors' = IF callbackRaised
                         THEN cbErrors \cup {callbacks[cbIndex]} ELSE cbErrors
          /\ cbIndex' = NextCallback(cbIndex, callbackRaised)
    /\ UNCHANGED libraryVars
    /\ UNCHANGED <<pc, callbacks, events, runLocals, retryLocals, result,
                   calls, raised, persist_failed>>

\* the coroutine is between two awaits and not inside a callback loop
At(label) == pc = label /\ cbIndex = 0

\* 'except Exception as e' of process(): failure result with str(e)
Catch(e) ==
    /\ raised' = e
    /\ result' = FailureResult(Msg(e.msg), TRUE)
    /\ pc' = "done"

\* an early 'return PipelineResult(success=False, error_message=...)'
ReturnFailure(msg) ==
    /\ result' = FailureResult(msg, FALSE)
    /\ pc' = "done"
    /\ raised' = raised


(***************************************************************************)
(* process(): from the call to the first await.                            *)
(***************************************************************************)
\* Python truth value of the client_identifier argument
Truthy(client) == client \notin {None, ""}

\* variant of RateLimitDenied with the test of 'allowed' inverted
RateLimitDenied_Inverted(client, rl) == Truthy(client) /\ rl.allowed

\* 'if client_identifier: ... if not rate_limit_result.allowed'
RateLimitDenied(client, rl) == Truthy(client) /\ ~rl.allowed

ProcessBegin ==
    /\ At("idle")
    /\ \E client \in ClientIdentifiers, rl \in RateLimitResults,
          filename \in Filenames, options \in OptionInputs :
          LET fr == sanitize_filename(filename)
              optres == validate_options(OrEmptyDict(options))
          IN
          /\ rate_limit_result' = IF Truthy(client) THEN rl ELSE NoneRec
          /\ \/ /\ RateLimitDenied(client, rl)
                /\ ReturnFailure(RateLimitMessage(rl.retry_after_seconds))
                /\ UNCHANGED <<filename_result, sanitized_filename,
                               sanitized_options, emitVars>>
             \/ /\ ~RateLimitDenied(client, rl)
                /\ filename.type = "int"     \* filename.strip() raises
                /\ Catch([kind |-> "AttributeError",
                          msg |-> "object has no attribute strip"])
                /\ UNCHANGED <<filename_result, sanitized_filename,
                               sanitized_options, emitVars>>
             \/ /\ ~RateLimitDenied(client, rl)
                /\ filename.type # "int"
                /\ ~fr.is_safe
                /\ filename_result' = [is_safe |-> fr.is_safe,
                                       error_message |-> fr.error_message]
                /\ ReturnFailure(Msg(fr.error_message))
                /\ UNCHANGED <<sanitized_filename, sanitized_options,
                               emitVars>>
             \/ /\ ~RateLimitDenied(client, rl)
                /\ filename.type # "int"
                /\ fr.is_safe
                /\ filename_result' = [is_safe |-> fr.is_safe,
                                       error_message |-> fr.error_message]
                /\ sanitized_filename' = fr.sanitized_value
                /\ sanitized_options' = IF optres.is_safe
                                        THEN optres.sanitized_value
                                        ELSE EmptyDict
                /\ Emit("validation", 5)
                /\ pc' = "validate"
                /\ UNCHANGED <<result, raised>>
    /\ UNCHANGED libraryVars
    /\ UNCHANGED <<callbacks, deliveries, validation_result, dbVars, ocrLocals,
                   stageLocals, retryLocals, calls, persist_failed>>

\* variant of ValidationPassed that ignores the validation result
ValidationPassed_Always(vr) == TRUE

\* 'if not validation_result.is_valid: return ...' lets the run continue
ValidationPassed(vr) == vr.is_valid

\* Stage 1: self._validate_file(...) and the second VALIDATION event
ValidateFile ==
    /\ At("validate")
    /\ \E vr \in FileValidationResults :
          /\ validation_result' = vr
          /\ calls' = [calls EXCEPT !.validate = @ + 1]
          /\ IF ~ValidationPassed(vr)
             THEN /\ ReturnFailure(Msg(vr.error_message))
                  /\ UNCHANGED emitVars
             ELSE /\ Emit("validation", 10)
                  /\ pc' = "create_resume"
                  /\ UNCHANGED <<result, raised>>
    /\ UNCHANGED libraryVars
    /\ UNCHANGED <<callbacks, deliveries, inputLocals, sanitized_filename, dbVars,
                   ocrLocals, stageLocals, retryLocals, persist_failed>>

(***************************************************************************)
(* Database calls: each save either succeeds or raises.                    *)
(***************************************************************************)
\* outcome of a database call: it succeeds, or raises DatabaseError, which
\* nothing between the call and the 'except Exception' of process() catches
SaveOutcome(ok, next) ==
    IF ok
    THEN /\ pc' = next
         /\ UNCHANGED <<result, raised, persist_failed>>
    ELSE /\ persist_failed' = TRUE
         /\ Catch(DatabaseError)

\* _create_resume (the record's original_filename, file_size are not kept)
CreateResume ==
    /\ At("create_resume")
    /\ \E ok \in BOOLEAN :
          /\ resume' = IF ok
                       THEN [file_type |-> validation_result.file_type,
                             has_text |-> FALSE]
                       ELSE resume
          /\ sanitized_filename' = <<>>      \* last use of the local
          /\ SaveOutcome(ok, "create_result")
    /\ UNCHANGED libraryVars
    /\ UNCHANGED <<callbacks, emitVars, deliveries, inputLocals,
                   validation_result, processing_result, ocrLocals,
                   stageLocals, retryLocals, calls>>

\* _create_processing_result
CreateProcessingResult ==
    /\ At("create_result")
    /\ \E ok \in BOOLEAN :
          /\ processing_result' =
                IF ok
                THEN [status |-> "pending", progress |-> 0,
                      saved_components |-> 0, selected_theme |-> None,
                      completed |-> FALSE]
                ELSE processing_result
          /\ SaveOutcome(ok, "emit_ocr_start")
    /\ UNCHANGED libraryVars
    /\ UNCHANGED <<callbacks, emitVars, deliveries, inputLocals,
                   sanitized_filename, validation_result, resume, ocrLocals,
                   stageLocals, retryLocals, calls>>


(***************************************************************************)
(* _emit_progress(stage, progress, message, processing_result): the calls  *)
(* of process() that pass the ProcessingResult, by position.               *)
(***************************************************************************)
EmitPoint(stage, progress, next) ==
    [stage |-> stage, progress |-> progress, next |-> next]

EmitPoints == {"emit_ocr_start", "emit_ocr_done", "emit_ai_start",
               "emit_ai_done", "emit_cs_start", "emit_cs_done", "emit_layout",
               "emit_complete"}

\* variant of EmitTable with the end of the analysis stage reported as OCR
EmitTable_StageMislabel(label) ==
    CASE label = "emit_ocr_start" -> EmitPoint("ocr", 15, "run_ocr")
      [] label = "emit_ocr_done" -> EmitPoint("ocr", 35, "emit_ai_start")
      [] label = "emit_ai_start" -> EmitPoint("ai_analysis", 40, "analyze")
      [] label = "emit_ai_done" -> EmitPoint("ocr", 65, "emit_cs_start")
      [] label = "emit_cs_start" ->
            EmitPoint("component_selection", 70, "select_components")
      [] label = "emit_cs_done" ->
            EmitPoint("component_selection", 85, "emit_layout")
      [] label = "emit_layout" ->
            EmitPoint("layout_generation", 90, "save_components")
      [] label = "emit_complete" -> EmitPoint("complete", 100, "return")

\* variant of EmitTable with the start of the analysis stage at 30 percent
EmitTable_ProgressDrop(label) ==
    CASE label = "emit_ocr_start" -> EmitPoint("ocr", 15, "run_ocr")
      [] label = "emit_ocr_done" -> EmitPoint("ocr", 35, "emit_ai_start")
      [] label = "emit_ai_start" -> EmitPoint("ai_analysis", 30, "analyze")
      [] label = "emit_ai_done" -> EmitPoint("ai_analysis", 65, "emit_cs_start")
      [] label = "emit_cs_start" ->
            EmitPoint("component_selection", 70, "select_components")
      [] label = "emit_cs_done" ->
            EmitPoint("component_selection", 85, "emit_layout")
      [] label = "emit_layout" ->
            EmitPoint("layout_generation", 90, "save_components")
      [] label = "emit_complete" -> EmitPoint("complete", 100, "return")

EmitTable(label) ==
    CASE label = "emit_ocr_start" -> EmitPoint("ocr", 15, "run_ocr")
      [] label = "emit_ocr_done" -> EmitPoint("ocr", 35, "emit_ai_start")
      [] label = "emit_ai_start" -> EmitPoint("ai_analysis", 40, "analyze")
      [] label = "emit_ai_done" -> EmitPoint("ai_analysis", 65, "emit_cs_start")
      [] label = "emit_cs_start" ->
            EmitPoint("component_selection", 70, "select_components")
      [] label = "emit_cs_done" ->
            EmitPoint("component_selection", 85, "emit_layout")
      [] label = "emit_layout" ->
            EmitPoint("layout_generation", 90, "save_components")
      [] label = "emit_complete" -> EmitPoint("complete", 100, "return")

\* _emit_progress with a ProcessingResult: the status update is awaited
\* first and its exception propagates; then the callbacks are called
EmitProgress ==
    /\ pc \in EmitPoints
    /\ cbIndex = 0
    /\ LET ep == EmitTable(pc) IN
       \E ok \in BOOLEAN :
          /\ processing_result' =
                [processing_result EXCEPT !.status = StatusOf(ep.stage),
                                          !.progress = ep.progress]
          /\ IF ok
             THEN /\ Emit(ep.stage, ep.progress)
                  /\ pc' = ep.next
                  /\ UNCHANGED <<result, raised, persist_failed>>
             ELSE /\ persist_failed' = TRUE
                  /\ Catch(DatabaseError)
                  /\ UNCHANGED emitVars
    /\ UNCHANGED libraryVars
    /\ UNCHANGED <<callbacks, deliveries, inputLocals, sanitized_filename,
                   validation_result, resume, ocrLocals, stageLocals,
                   retryLocals, calls>>

(***************************************************************************)
(* Stage 2: _run_ocr_with_retry = ocr_retry_handler.execute_with_retry.    *)
(***************************************************************************)
\* 'return result.value if result.success else fallback_result' and the
\* branch of process() on ocr_result.success
OcrFinished(retry_result) ==
    LET ocr == IF retry_result.success THEN retry_result.value
               ELSE OcrFallbackResult
    IN  /\ ocr_result' = ocr
        /\ extracted_text' = IF ocr.success THEN ocr.full_text ELSE ""
        /\ pc' = IF ocr.success THEN "update_resume_ocr" ELSE "emit_ocr_done"
        /\ attempt' = 0
        /\ total_delay' = 0
        /\ last_error' = NoError
        /\ error_category' = "unknown"

\* one iteration of 'while True': the operation returns, or raises and the
\* handler decides between a retry and the end of the loop
RunOcr ==
    /\ At("run_ocr")
    /\ \/ \E r \in OcrReturns :
             /\ calls' = [calls EXCEPT !.ocr = @ + 1]
             /\ OcrFinished(RetrySucceeded(r, attempt, total_delay))
       \/ \E e \in OcrErrors :
             /\ calls' = [calls EXCEPT !.ocr = @ + 1, !.ocr_raised = @ + 1]
             /\ IF should_retry(OcrRetryConfig, e, attempt)
                THEN /\ last_error' = e
                     /\ error_category' = classify(e)
                     /\ total_delay' =
                           total_delay
                             + calculate_delay(OcrRetryConfig, attempt, 0)
                     /\ pc' = "ocr_backoff"
                     /\ UNCHANGED <<attempt, ocr_result, extracted_text>>
                ELSE OcrFinished(RetryExhausted(OcrFallbackConfig, attempt,
                                                total_delay, e, classify(e)))
    /\ UNCHANGED libraryVars
    /\ UNCHANGED <<callbacks, emitVars, deliveries, inputLocals,
                   sanitized_filename, validation_result, dbVars, stageLocals,
                   outcome>>

\* 'await asyncio.sleep(delay)' returns; 'attempt += 1'
OcrBackoff ==
    /\ At("ocr_backoff")
    /\ attempt < MaxAttemptCap
    /\ attempt' = attempt + 1
    /\ pc' = "run_ocr"
    /\ UNCHANGED libraryVars
    /\ UNCHANGED <<callbacks, emitVars, deliveries, runLocals, total_delay,
                   last_error, error_category, result, calls, raised,
                   persist_failed>>

\* _update_resume_ocr
UpdateResumeOcr ==
    /\ At("update_resume_ocr")
    /\ \E ok \in BOOLEAN :
          /\ resume' = [resume EXCEPT !.has_text = TRUE]
          /\ SaveOutcome(ok, "emit_ocr_done")
    /\ UNCHANGED libraryVars
    /\ UNCHANGED <<callbacks, emitVars, deliveries, inputLocals,
                   sanitized_filename, validation_result, processing_result,
                   ocrLocals, stageLocals, retryLocals, calls>>

(***************************************************************************)
(* Stage 3 and 4: analysis and component selection with their fallbacks.   *)
(***************************************************************************)
\* profiles the analysis step can return for a text
AnalysisReturns(text) ==
    {[AnalyzedProfile(text) EXCEPT !["professionalCategory"] = c] :
        c \in AnalysisCategories}
      \cup {DictWithout(AnalyzedProfile(text), "professionalCategory")}

\* exceptions of the analysis collaborator
AnalysisErrors ==
    { [kind |-> "ConnectionError", msg |-> "connection lost"],
      [kind |-> "ValueError", msg |-> "bad image"] }

\* _analyze_resume_with_fallback: one call of _analyze_resume in a try, the
\* default profile in 'except Exception'
AnalyzeResume ==
    /\ At("analyze")
    /\ \/ \E profile \in AnalysisReturns(extracted_text) :
             /\ candidate_profile' = profile
             /\ calls' = [calls EXCEPT !.analysis = @ + 1]
       \/ \E e \in AnalysisErrors :
             /\ candidate_profile' = get_default_fallback_profile
             /\ calls' = [calls EXCEPT !.analysis = @ + 1,
                                       !.analysis_raised = @ + 1,
                                       !.analysis_error = e]
    /\ pc' = "emit_ai_done"
    /\ UNCHANGED libraryVars
    /\ UNCHANGED <<callbacks, emitVars, deliveries, inputLocals,
                   sanitized_filename, validation_result, dbVars, ocrLocals,
                   components, theme, retryLocals, outcome>>

\* _select_components_with_fallback
SelectComponentsWithFallback ==
    /\ At("select_components")
    /\ calls' = [calls EXCEPT !.selection = @ + 1]
    /\ \E selectionRaised \in BOOLEAN :
          components' = IF selectionRaised
                        THEN get_default_fallback_components
                        ELSE SelectComponents(candidate_profile)
    /\ pc' = "emit_cs_done"
    /\ UNCHANGED libraryVars
    /\ UNCHANGED <<callbacks, emitVars, deliveries, inputLocals,
                   sanitized_filename, validation_result, dbVars, ocrLocals,
                   candidate_profile, theme, retryLocals, outcome>>

(***************************************************************************)
(* Stage 5: theme, saving the results, completion.                         *)
(***************************************************************************)
\* 'theme = self._select_theme(...)' and _save_components
SaveComponents ==
    /\ At("save_components")
    /\ theme' = SelectTheme(candidate_profile, sanitized_options)
    /\ \E ok \in BOOLEAN :
          /\ processing_result' =
                IF ok
                THEN [processing_result EXCEPT
                         !.saved_components = Len(components)]
                ELSE processing_result
          /\ SaveOutcome(ok, "update_profile")
    /\ UNCHANGED libraryVars
    /\ UNCHANGED <<callbacks, emitVars, deliveries, inputLocals,
                   sanitized_filename, validation_result, resume, ocrLocals,
                   candidate_profile, components, retryLocals, calls>>

\* _update_processing_result_profile
UpdateProfile ==
    /\ At("update_profile")
    /\ \E ok \in BOOLEAN :
          /\ processing_result' =
                [processing_result EXCEPT !.selected_theme = theme]
          /\ SaveOutcome(ok, "complete_processing")
    /\ UNCHANGED libraryVars
    /\ UNCHANGED <<callbacks, emitVars, deliveries, inputLocals,
                   sanitized_filename, validation_result, resume, ocrLocals,
                   stageLocals, retryLocals, calls>>

\* _complete_processing
CompleteProcessing ==
    /\ At("complete_processing")
    /\ \E ok \in BOOLEAN :
          /\ processing_result' =
                [processing_result EXCEPT !.status = "complete",
                                          !.progress = 100,
                                          !.completed = TRUE]
          /\ SaveOutcome(ok, "emit_complete")
    /\ UNCHANGED libraryVars
    /\ UNCHANGED <<callbacks, emitVars, deliveries, inputLocals,
                   sanitized_filename, validation_result, resume, ocrLocals,
                   stageLocals, retryLocals, calls>>

\* 'return PipelineResult(success=True, ...)'
ReturnSuccess ==
    /\ At("return")
    /\ result' = PipelineResult(TRUE, Msg(""), candidate_profile, components,
                                theme, TRUE, TRUE)
    /\ pc' = "done"
    /\ UNCHANGED libraryVars
    /\ UNCHANGED <<callbacks, emitVars, deliveries, runLocals, retryLocals,
                   calls, raised, persist_failed>>

\* the caller has the result; the service is ready for the next call
NewRun ==
    /\ pc = "done"
    /\ pc' = "idle"
    /\ cbIndex' = 0
    /\ cbErrors' = {}
    /\ events' = <<>>
    /\ deliveries' = <<>>
    /\ rate_limit_result' = NoneRec
    /\ filename_result' = NoneRec
    /\ sanitized_filename' = <<>>
    /\ sanitized_options' = EmptyDict
    /\ validation_result' = NoneRec
    /\ resume' = NoneRec
    /\ processing_result' = NoneRec
    /\ ocr_result' = NoneRec
    /\ extracted_text' = ""
    /\ candidate_profile' = EmptyDict
    /\ components' = <<>>
    /\ theme' = None
    /\ attempt' = 0
    /\ total_delay' = 0
    /\ last_error' = NoError
    /\ error_category' = "unknown"
    /\ result' = NoneRec
    /\ calls' = NoCalls
    /\ raised' = NoError
    /\ persist_failed' = FALSE
    /\ UNCHANGED <<callbacks, libraryVars>>

\* the steps of one process() run
RunStep ==
    \/ ProcessBegin
    \/ InvokeCallback
    \/ ValidateFile
    \/ CreateResume
    \/ CreateProcessingResult
    \/ EmitProgress
    \/ RunOcr
    \/ OcrBackoff
    \/ UpdateResumeOcr
    \/ AnalyzeResume
    \/ SelectComponentsWithFallback
    \/ SaveComponents
    \/ UpdateProfile
    \/ CompleteProcessing
    \/ ReturnSuccess

Next ==
    \/ AddProgressCallback
    \/ RunStep
    \/ NewRun

Spec == Init /\ [][Next]_vars

\* every await of a run eventually returns (collaborator calls return or
\* raise, sleeps end), so a started run keeps taking steps
FairSpec == Spec /\ WF_vars(RunStep)

\* the steps of a run other than the return of a collaborator call
OwnStep ==
    \/ ProcessBegin
    \/ InvokeCallback
    \/ ValidateFile
    \/ CreateResume
    \/ CreateProcessingResult
    \/ EmitProgress
    \/ OcrBackoff
    \/ UpdateResumeOcr
    \/ SelectComponentsWithFallback
    \/ SaveComponents
    \/ UpdateProfile
    \/ CompleteProcessing
    \/ ReturnSuccess

\* a call of the extraction or analysis collaborator may never complete:
\* 'await self._run_ocr(...)' and 'await self._analyze_resume(...)' are not
\* wrapped in asyncio.wait_for or given a timeout, so nothing but the
\* collaborator itself ends the await
PendingCallSpec == Spec /\ WF_vars(OwnStep)


(***************************************************************************)
(* RetryHandler.execute_with_retry called directly, with any              *)
(* configuration and any fallback argument.  The locals attempt,          *)
(* total_delay, last_error and error_category are the variables of those  *)
(* names; the operation returns or raises at every call.  A call of       *)
(* execute_sync_with_retry on the same handler with the same fallback     *)
(* runs beside it: its operation and its random.random() give what the    *)
(* other call's give, call by call; its locals are the record sync.       *)
(***************************************************************************)
RetryStrategy == {"fixed", "exponential", "jittered"}

\* the configurations a RetryHandler is constructed with: delays in
\* milliseconds, jitter_factor in percent, two allowlists
RetryConfigs ==
    { [RetryConfig(r, b, m, s, a) EXCEPT !.jitter_percent = j] :
        r \in 0..MaxRetries, b \in {500, 2000}, m \in {3000, 30000},
        s \in RetryStrategy, j \in {10, 50},
        a \in { {"ConnectionError", "TimeoutError", "asyncio.TimeoutError"},
                {"KeyError"} } }

OperationValue == [value |-> "result"]
FixedValue == [value |-> "fallback_value"]
FactoryValue == [value |-> "fallback_factory()"]

\* FallbackConfig(enable_fallback, fallback_value, fallback_factory)
FallbackConfig(enabled, value, hasFactory) ==
    [enable_fallback |-> enabled, fallback_value |-> value,
     has_factory |-> hasFactory,
     factory_value |-> IF hasFactory THEN FactoryValue ELSE NoneRec]

\* the fallback arguments of a call: None, disabled, a value, a factory
FallbackConfigs ==
    { NoneRec,
      FallbackConfig(FALSE, FixedValue, TRUE),
      FallbackConfig(TRUE, FixedValue, FALSE),
      FallbackConfig(TRUE, FixedValue, TRUE) }

\* what the operation can raise
HandlerErrors ==
    { [kind |-> "ConnectionError", msg |-> "connection lost"],
      [kind |-> "ConnectionResetError", msg |-> "429 too many requests"],
      [kind |-> "RuntimeError", msg |-> "rate limit hit: request timeout"],
      [kind |-> "RuntimeError", msg |-> "read timeout"],
      [kind |-> "KeyError", msg |-> "missing"],
      [kind |-> "ValueError", msg |-> "bad image"] }

\* random.random(), in percent
Randoms == {0, 50, 99}

\* variant of sync_attempt that does not add the delay to total_delay
sync_attempt_DelayUncounted(cfg, fb, locals, e, rnd) ==
    IF e = NoError
    THEN [locals EXCEPT !.result =
            RetrySucceeded(OperationValue, locals.attempt, locals.total_delay)]
    ELSE IF ~should_retry(cfg, e, locals.attempt)
    THEN [locals EXCEPT
            !.last_error = e,
            !.error_category = classify(e),
            !.result = RetryExhausted(fb, locals.attempt, locals.total_delay,
                                      e, classify(e))]
    ELSE [locals EXCEPT
            !.last_error = e,
            !.error_category = classify(e),
            !.attempt = @ + 1]

\* execute_sync_with_retry: one pass of 'while True' in which operation()
\* raises e (NoError: it returns) and random.random() gives rnd, with the
\* code after the loop when the pass leaves it
sync_attempt(cfg, fb, locals, e, rnd) ==
    IF e = NoError
    THEN [locals EXCEPT !.result =
            RetrySucceeded(OperationValue, locals.attempt, locals.total_delay)]
    ELSE IF ~should_retry(cfg, e, locals.attempt)
    THEN [locals EXCEPT
            !.last_error = e,
            !.error_category = classify(e),
            !.result = RetryExhausted(fb, locals.attempt, locals.total_delay,
                                      e, classify(e))]
    ELSE [locals EXCEPT
            !.last_error = e,
            !.error_category = classify(e),
            !.total_delay = @ + calculate_delay(cfg, locals.attempt, rnd),
            !.attempt = @ + 1]

pipelineVars == <<pc, callbacks, emitVars, deliveries, runLocals, outcome, calls>>

RetryInit ==
    /\ pc = "idle"
    /\ callbacks = <<>>
    /\ FreshRun
    /\ SelectionUnused
    /\ GuardUnused
    /\ config \in RetryConfigs
    /\ fallback \in FallbackConfigs
    /\ hdl_pc = "call"
    /\ op_calls = 0
    /\ factory_calls = 0
    /\ delay = 0
    /\ hdl_result = NoneRec
    /\ sync = SyncLocals

\* 'result = await operation()' returns: success is reported at once
OperationReturns ==
    /\ hdl_pc = "call"
    /\ op_calls' = op_calls + 1
    /\ hdl_result' = RetrySucceeded(OperationValue, attempt, total_delay)
    /\ sync' = sync_attempt(config, fallback, sync, NoError, 0)
    /\ hdl_pc' = "returned"
    /\ UNCHANGED <<config, fallback, factory_calls, delay, retryLocals,
                   pipelineVars, selectionVars, guardVars>>

\* variant of FactoryCalls that calls the factory at every failure
FactoryCalls_Eager(fb, retrying, n) ==
    IF fb # NoneRec /\ fb.enable_fallback /\ fb.has_factory THEN n + 1 ELSE n

\* invocations of fallback.fallback_factory once a failed attempt was handled:
\* 'fallback.fallback_factory() if fallback.fallback_factory else ...' is
\* reached only after the loop, under 'fallback and fallback.enable_fallback'
FactoryCalls(fb, retrying, n) ==
    IF ~retrying /\ fb # NoneRec /\ fb.enable_fallback /\ fb.has_factory
    THEN n + 1 ELSE n

\* 'except Exception as e': retry after a sleep, or leave the loop and
\* return the fallback or the failure
OperationRaises ==
    /\ hdl_pc = "call"
    /\ \E e \in HandlerErrors, rnd \in Randoms :
          LET retrying == should_retry(config, e, attempt) IN
          /\ op_calls' = op_calls + 1
          /\ last_error' = e
          /\ error_category' = classify(e)
          /\ factory_calls' = FactoryCalls(fallback, retrying, factory_calls)
          /\ sync' = sync_attempt(config, fallback, sync, e, rnd)
          /\ IF retrying
             THEN /\ delay' = calculate_delay(config, attempt, rnd)
                  /\ total_delay' = total_delay + delay'
                  /\ hdl_pc' = "sleep"
                  /\ UNCHANGED hdl_result
             ELSE /\ hdl_result' = RetryExhausted(fallback, attempt,
                                                  total_delay, e, classify(e))
                  /\ hdl_pc' = "returned"
                  /\ UNCHANGED <<delay, total_delay>>
    /\ UNCHANGED <<config, fallback, attempt, pipelineVars, selectionVars, guardVars>>

\* 'await asyncio.sleep(delay)' ends; 'attempt += 1'
SleepEnds ==
    /\ hdl_pc = "sleep"
    /\ attempt < MaxAttemptCap
    /\ attempt' = attempt + 1
    /\ hdl_pc' = "call"
    /\ UNCHANGED <<config, fallback, op_calls, factory_calls, delay,
                   hdl_result, sync, total_delay, last_error, error_category,
                   pipelineVars, selectionVars, guardVars>>

RetryNext ==
    \/ OperationReturns
    \/ OperationRaises
    \/ SleepEnds

RetrySpec == RetryInit /\ [][RetryNext]_vars


(***************************************************************************)
(* Pure functions called directly: _select_components and the two         *)
(* fallback generators, applied to any partial profile and any category;   *)
(* _select_theme and validate_options, applied to any options.             *)
(***************************************************************************)
ProfileFields ==
    {"name", "title", "summary", "skills", "experience", "projects",
     "achievements"}

FieldValue(k) ==
    CASE k = "name" -> "Ada Lovelace"
      [] k = "title" -> "Engineer"
      [] k = "summary" -> "Builds engines."
      [] k = "skills" -> <<"Analysis">>
      [] k = "experience" -> <<"Analytical Engine">>
      [] k = "projects" -> <<"Notes">>
      [] k = "achievements" -> <<"First program">>

\* category values: the four of ProfessionalCategory, an unrecognised one,
\* and None for a missing one
CategoryValues == ProfessionalCategory \cup {"freelance", None}

\* the profile with the fields F and the category c (no key if c is None)
PartialProfile(F, c) ==
    [k \in F \cup (IF c = None THEN {} ELSE {"professionalCategory"}) |->
        IF k = "professionalCategory" THEN c ELSE FieldValue(k)]

PartialProfiles ==
    { PartialProfile(F, c) : F \in SUBSET ProfileFields, c \in CategoryValues }

SelectionInit ==
    /\ pc = "idle"
    /\ callbacks = <<>>
    /\ FreshRun
    /\ HandlerUnused
    /\ GuardUnused
    /\ partial_profile \in PartialProfiles
    /\ category = None
    /\ selected_by = None
    /\ options_arg = NoneRec
    /\ options_result = NoneRec

selectionRest ==
    <<pc, callbacks, emitVars, deliveries, inputLocals, sanitized_filename,
      validation_result, dbVars, ocrLocals, candidate_profile, theme,
      retryLocals, outcome, calls, handlerVars, guardVars, partial_profile,
      options_arg, options_result>>

\* the theme_preference values of direct _select_theme calls (None: no key)
ThemePreferences == VALID_THEMES \cup {"invalid_theme", None}

\* PipelineService._select_components(partial_profile, options)
SelectComponentsCall ==
    /\ selected_by = None
    /\ components' = SelectComponents(partial_profile)
    /\ selected_by' = "_select_components"
    /\ UNCHANGED <<category, selectionRest>>

\* ErrorRecoveryService.get_fallback_components_for_category(c, partial_profile)
FallbackComponentsForCategoryCall ==
    /\ selected_by = None
    /\ \E c \in CategoryValues :
          /\ category' = c
          /\ components' = get_fallback_components_for_category(c, partial_profile)
    /\ selected_by' = "get_fallback_components_for_category"
    /\ UNCHANGED selectionRest

\* ErrorRecoveryService.get_default_fallback_components()
DefaultFallbackComponentsCall ==
    /\ selected_by = None
    /\ components' = get_default_fallback_components
    /\ selected_by' = "get_default_fallback_components"
    /\ UNCHANGED <<category, selectionRest>>

\* PipelineService._select_theme(partial_profile, options)
SelectThemeCall ==
    /\ selected_by = None
    /\ \E theme_pref \in ThemePreferences :
          LET options == IF theme_pref = None THEN <<>>
                         ELSE [k \in {"theme_preference"} |-> theme_pref]
          IN  /\ options_arg' = [type |-> "dict", val |-> options]
              /\ theme' = SelectTheme(partial_profile, options)
    /\ selected_by' = "_select_theme"
    /\ UNCHANGED <<pc, callbacks, emitVars, deliveries, inputLocals,
                   sanitized_filename, validation_result, dbVars, ocrLocals,
                   candidate_profile, components, retryLocals, outcome, calls,
                   handlerVars, guardVars, partial_profile, category,
                   options_result>>

\* InputSanitizationService.validate_options(options)
ValidateOptionsCall ==
    /\ selected_by = None
    /\ \E options \in OptionInputs :
          /\ options_arg' = options
          /\ options_result' = validate_options(options)
    /\ selected_by' = "validate_options"
    /\ UNCHANGED <<pc, callbacks, emitVars, deliveries, inputLocals,
                   sanitized_filename, validation_result, dbVars, ocrLocals,
                   stageLocals, retryLocals, outcome, calls, handlerVars,
                   guardVars, partial_profile, category>>

SelectionNext ==
    \/ SelectComponentsCall
    \/ FallbackComponentsForCategoryCall
    \/ DefaultFallbackComponentsCall
    \/ SelectThemeCall
    \/ ValidateOptionsCall

SelectionSpec == SelectionInit /\ [][SelectionNext]_vars

(***************************************************************************)
(* RateLimiter (input_sanitization_service.py), called directly by one or  *)
(* more threads.  time.time() is a clock of whole seconds.  check() reads  *)
(* the clock before it takes self._lock, so a call is two steps: CallCheck *)
(* and then CheckLocked, the statements under the lock.  block() and       *)
(* reset() read and write under the lock only and are one step each.       *)
(***************************************************************************)
Identifiers == {"10.0.0.1"}
BlockDurations == {1, 4}

CheckResult(allowed, remaining, retry_after) ==
    [allowed |-> allowed, remaining_requests |-> remaining,
     retry_after_seconds |-> retry_after]

Kept(timestamps, start) == SelectSeq(timestamps, LAMBDA ts : ts > start)
Oldest(timestamps) ==
    CHOOSE m \in Range(timestamps) : \A ts \in Range(timestamps) : m <= ts

\* variant of BlockedRetryAfter without the added second
BlockedRetryAfter_Exact(until, now) == until - now

\* 'retry_after = int(self._blocked_until[identifier] - now) + 1'
BlockedRetryAfter(until, now) == (until - now) + 1

\* variant of CleanOld that keeps a timestamp exactly window_seconds old
CleanOld_Inclusive(timestamps, now) ==
    SelectSeq(timestamps, LAMBDA ts : ts >= now - window_seconds)

\* 'self._requests[identifier] = [ts for ts in ... if ts > window_start]'
CleanOld(timestamps, now) == Kept(timestamps, now - window_seconds)

\* variant of BurstCount that counts from 'now' instead of the window start
BurstCount_FromNow(timestamps, now) == Len(Kept(timestamps, now))

\* 'burst_count = len([ts for ts in ... if ts > burst_window_start])'
BurstCount(timestamps, now) == Len(Kept(timestamps, now - burst_window_seconds))

\* variant of BurstExceeded that lets burst_limit requests pass
BurstExceeded_Strict(burst_count) == burst_count > burst_limit

\* 'if burst_count >= self.burst_limit:'
BurstExceeded(burst_count) == burst_count >= burst_limit

\* variant of QuotaExceeded that lets one more request pass
QuotaExceeded_Strict(current_count) == current_count > max_requests

\* 'if current_count >= self.max_requests:'
QuotaExceeded(current_count) == current_count >= max_requests

\* variant of check that records the timestamp of a check denied for quota
check_RecordsDenied(reqs, blocked, identifier, now) ==
    LET unblocked == DictWithout(blocked, identifier)
        cleaned == CleanOld(reqs[identifier], now)
        current_count == Len(cleaned)
        remaining == Max(0, max_requests - current_count)
        burst_count == BurstCount(cleaned, now)
        oldest_request == IF cleaned # <<>> THEN Oldest(cleaned) ELSE now
        retry_after == (oldest_request + window_seconds - now) + 1
        stored == [reqs EXCEPT ![identifier] = cleaned]
    IN  IF identifier \in DOMAIN blocked /\ now < blocked[identifier]
        THEN [requests |-> reqs, blocked_until |-> blocked,
              result |-> CheckResult(FALSE, 0,
                             BlockedRetryAfter(blocked[identifier], now))]
        ELSE IF BurstExceeded(burst_count)
        THEN [requests |-> stored,
              blocked_until |->
                  [k \in DOMAIN blocked \cup {identifier} |->
                      IF k = identifier THEN now + burst_window_seconds
                      ELSE blocked[k]],
              result |-> CheckResult(FALSE, 0, burst_window_seconds)]
        ELSE IF QuotaExceeded(current_count)
        THEN [requests |-> [reqs EXCEPT ![identifier] = Append(cleaned, now)],
              blocked_until |-> unblocked,
              result |-> CheckResult(FALSE, 0, Max(1, retry_after))]
        ELSE [requests |-> [reqs EXCEPT ![identifier] = Append(cleaned, now)],
              blocked_until |-> unblocked,
              result |-> CheckResult(TRUE, remaining - 1, 0)]

\* variant of check in which a check made during a block restarts the block
check_ExtendsBlock(reqs, blocked, identifier, now) ==
    LET unblocked == DictWithout(blocked, identifier)
        cleaned == CleanOld(reqs[identifier], now)
        current_count == Len(cleaned)
        remaining == Max(0, max_requests - current_count)
        burst_count == BurstCount(cleaned, now)
        oldest_request == IF cleaned # <<>> THEN Oldest(cleaned) ELSE now
        retry_after == (oldest_request + window_seconds - now) + 1
        stored == [reqs EXCEPT ![identifier] = cleaned]
    IN  IF identifier \in DOMAIN blocked /\ now < blocked[identifier]
        THEN [requests |-> reqs,
              blocked_until |->
                  [blocked EXCEPT ![identifier] = now + burst_window_seconds],
              result |-> CheckResult(FALSE, 0,
                             BlockedRetryAfter(blocked[identifier], now))]
        ELSE IF BurstExceeded(burst_count)
        THEN [requests |-> stored,
              blocked_until |->
                  [k \in DOMAIN blocked \cup {identifier} |->
                      IF k = identifier THEN now + burst_window_seconds
                      ELSE blocked[k]],
              result |-> CheckResult(FALSE, 0, burst_window_seconds)]
        ELSE IF QuotaExceeded(current_count)
        THEN [requests |-> stored, blocked_until |-> unblocked,
              result |-> CheckResult(FALSE, 0, Max(1, retry_after))]
        ELSE [requests |-> [reqs EXCEPT ![identifier] = Append(cleaned, now)],
              blocked_until |-> unblocked,
              result |-> CheckResult(TRUE, remaining - 1, 0)]

\* RateLimiter.check, the statements under 'with self._lock:': the new
\* self._requests and self._blocked_until and the RateLimitResult returned
check(reqs, blocked, identifier, now) ==
    LET unblocked == DictWithout(blocked, identifier)
        cleaned == CleanOld(reqs[identifier], now)
        current_count == Len(cleaned)
        remaining == Max(0, max_requests - current_count)
        burst_count == BurstCount(cleaned, now)
        oldest_request == IF cleaned # <<>> THEN Oldest(cleaned) ELSE now
        retry_after == (oldest_request + window_seconds - now) + 1
        stored == [reqs EXCEPT ![identifier] = cleaned]
    IN  IF identifier \in DOMAIN blocked /\ now < blocked[identifier]
        THEN [requests |-> reqs, blocked_until |-> blocked,
              result |-> CheckResult(FALSE, 0,
                             BlockedRetryAfter(blocked[identifier], now))]
        ELSE IF BurstExceeded(burst_count)
        THEN [requests |-> stored,
              blocked_until |->
                  [k \in DOMAIN blocked \cup {identifier} |->
                      IF k = identifier THEN now + burst_window_seconds
                      ELSE blocked[k]],
              result |-> CheckResult(FALSE, 0, burst_window_seconds)]
        ELSE IF QuotaExceeded(current_count)
        THEN [requests |-> stored, blocked_until |-> unblocked,
              result |-> CheckResult(FALSE, 0, Max(1, retry_after))]
        ELSE [requests |-> [reqs EXCEPT ![identifier] = Append(cleaned, now)],
              blocked_until |-> unblocked,
              result |-> CheckResult(TRUE, remaining - 1, 0)]

\* History of the checks allowed.  A check is dated by the 'now' it read.  A
\* value is dropped once every check still to be decided reads or has read a
\* 'now' window_seconds or more after it.
Horizon(clk, pcs, nows) ==
    LET waiting == {nows[t] : t \in {u \in DOMAIN pcs : pcs[u] = "check"}}
    IN  IF waiting = {} THEN clk
        ELSE Min(clk, CHOOSE m \in waiting : \A n \in waiting : m <= n)
Inserted(history, now) ==
    SelectSeq(history, LAMBDA ts : ts <= now) \o <<now>>
        \o SelectSeq(history, LAMBDA ts : ts > now)
Recent(history, clk, pcs, nows) ==
    Kept(history, Horizon(clk, pcs, nows) - window_seconds)

LimiterInit(T) ==
    /\ pc = "idle"
    /\ callbacks = <<>>
    /\ FreshRun
    /\ HandlerUnused
    /\ SelectionUnused
    /\ DuplicateUnused
    /\ GeminiUnused
    /\ clock = 0
    /\ threads = T
    /\ submitters = {}
    /\ th_pc = [t \in T |-> "idle"]
    /\ th_now = [t \in T |-> 0]
    /\ th_arg = [t \in T |-> None]
    /\ th_result = [t \in T |-> NoneRec]
    /\ requests = [i \in Identifiers |-> <<>>]
    /\ blocked_until = <<>>
    /\ admitted = <<>>
    /\ manual_block = FALSE
    /\ last_check = -1
    /\ quiet_check = FALSE

limiterRest ==
    <<pipelineVars, retryLocals, handlerVars, selectionVars, duplicateVars,
      geminiVars, threads, submitters>>

\* check(identifier): 'now = time.time()', before the lock is taken
CallCheck(t) ==
    /\ th_pc[t] = "idle"
    /\ \E identifier \in Identifiers :
          th_arg' = [th_arg EXCEPT ![t] = identifier]
    /\ th_now' = [th_now EXCEPT ![t] = clock]
    /\ th_pc' = [th_pc EXCEPT ![t] = "check"]
    /\ UNCHANGED <<clock, th_result, limiterVars, limiterRest>>

\* check(identifier): the critical section and the return
CheckLocked(t) ==
    /\ th_pc[t] = "check"
    /\ LET r == check(requests, blocked_until, th_arg[t], th_now[t])
       IN  /\ requests' = r.requests
           /\ blocked_until' = r.blocked_until
           /\ th_result' = [th_result EXCEPT ![t] = r.result]
           /\ th_pc' = [th_pc EXCEPT ![t] = "idle"]
           /\ admitted' =
                 Recent(IF r.result.allowed
                        THEN Inserted(admitted, th_now[t]) ELSE admitted,
                        clock, th_pc, th_now)
           /\ manual_block' = (manual_block /\ r.blocked_until = blocked_until)
    /\ last_check' = th_now[t]
    /\ quiet_check' = (/\ last_check >= 0
                       /\ th_now[t] - last_check >= window_seconds
                       /\ ~manual_block)
    /\ UNCHANGED <<clock, th_now, th_arg, limiterRest>>

\* block(identifier, duration_seconds)
Block ==
    /\ \E identifier \in Identifiers, duration_seconds \in BlockDurations :
          blocked_until' =
              [k \in DOMAIN blocked_until \cup {identifier} |->
                  IF k = identifier THEN clock + duration_seconds
                  ELSE blocked_until[k]]
    /\ manual_block' = TRUE
    /\ UNCHANGED <<clock, threadVars, requests, admitted, last_check,
                   quiet_check, limiterRest>>

\* reset(identifier)
Reset ==
    /\ \E identifier \in Identifiers :
          /\ requests' = [requests EXCEPT ![identifier] = <<>>]
          /\ blocked_until' = DictWithout(blocked_until, identifier)
    /\ admitted' = <<>>
    /\ manual_block' = FALSE
    /\ last_check' = -1
    /\ quiet_check' = FALSE
    /\ UNCHANGED <<clock, threadVars, limiterRest>>

\* a second passes
Tick ==
    /\ clock < MaxClock
    /\ clock' = clock + 1
    /\ admitted' = Recent(admitted, clock', th_pc, th_now)
    /\ UNCHANGED <<threadVars, requests, blocked_until, manual_block,
                   last_check, quiet_check, limiterRest>>

LimiterNext ==
    \/ \E t \in threads : CallCheck(t)
    \/ \E t \in threads : CheckLocked(t)
    \/ Block
    \/ Reset
    \/ Tick

\* one caller: the calls follow one another
LimiterSpec == LimiterInit({1}) /\ [][LimiterNext]_vars

\* two callers: their calls overlap
ConcurrentLimiterSpec == LimiterInit({1, 2}) /\ [][LimiterNext]_vars

(***************************************************************************)
(* Duplicate detection of InputSanitizationService.validate_content,       *)
(* called directly by one or more threads.  The checks that come before    *)
(* the content hash (size, filename, extension) are reduced to the test of *)
(* empty content; they return before any shared state is read.  A call     *)
(* with a client identifier takes self._hash_lock twice: in                *)
(* _check_duplicate (CheckDuplicate) and in _record_submission             *)
(* (RecordSubmission).                                                     *)
(***************************************************************************)
Contents == {"", "%PDF-1.4 a", "%PDF-1.4 b"}
SubmitterIds == {None, "10.0.0.1", "10.0.0.2"}

\* compute_content_hash: hashlib.sha256(content).hexdigest()
compute_content_hash(content) == <<"sha256", content>>

ContentValidationResult(is_valid, error) ==
    [is_valid |-> is_valid, error |-> error]

\* variant of CleanHashes that keeps a hash exactly _hash_window_seconds old
CleanHashes_Inclusive(hashes, now) ==
    LET live == {h \in DOMAIN hashes : hashes[h] >= now - hash_window_seconds}
    IN  [h \in live |-> hashes[h]]

\* _check_duplicate: '{h: ts for h, ts in ... if ts > window_start}'
CleanHashes(hashes, now) ==
    LET live == {h \in DOMAIN hashes : hashes[h] > now - hash_window_seconds}
    IN  [h \in live |-> hashes[h]]

Submission(content, identifier) ==
    [content |-> content, identifier |-> identifier]

DuplicateInit(T, ids) ==
    /\ pc = "idle"
    /\ callbacks = <<>>
    /\ FreshRun
    /\ HandlerUnused
    /\ SelectionUnused
    /\ LimiterUnused
    /\ GeminiUnused
    /\ clock = 0
    /\ threads = T
    /\ submitters = ids
    /\ th_pc = [t \in T |-> "idle"]
    /\ th_now = [t \in T |-> 0]
    /\ th_arg = [t \in T |-> NoneRec]
    /\ th_result = [t \in T |-> NoneRec]
    /\ recent_hashes = <<>>
    /\ accepts = <<>>

duplicateRest ==
    <<pipelineVars, retryLocals, handlerVars, selectionVars, limiterVars,
      geminiVars, threads, submitters>>

\* validate_content(content, filename, declared_content_type, identifier) up
\* to the lock of _check_duplicate
ValidateContent(t) ==
    /\ th_pc[t] = "idle"
    /\ \E content \in Contents, identifier \in submitters :
          /\ th_arg' = [th_arg EXCEPT ![t] = Submission(content, identifier)]
          /\ IF content = ""
             THEN /\ th_result' = [th_result EXCEPT ![t] =
                        ContentValidationResult(FALSE, "CONTENT_TOO_SHORT")]
                  /\ UNCHANGED <<th_pc, th_now>>
             ELSE IF ~Truthy(identifier)
             THEN /\ th_result' = [th_result EXCEPT ![t] =
                        ContentValidationResult(TRUE, "NONE")]
                  /\ UNCHANGED <<th_pc, th_now>>
             ELSE /\ th_pc' = [th_pc EXCEPT ![t] = "_check_duplicate"]
                  /\ th_now' = [th_now EXCEPT ![t] = clock]
                  /\ UNCHANGED th_result
    /\ UNCHANGED <<clock, duplicateVars, duplicateRest>>

\* variant of CheckDuplicate in which a rejected submission refreshes the
\* recorded time of its hash
CheckDuplicate_Refreshes(t) ==
    /\ th_pc[t] = "_check_duplicate"
    /\ LET identifier == th_arg[t].identifier
           content_hash == compute_content_hash(th_arg[t].content)
           cleaned ==
               IF identifier \in DOMAIN recent_hashes
               THEN [recent_hashes EXCEPT ![identifier] =
                        CleanHashes(recent_hashes[identifier], th_now[t])]
               ELSE recent_hashes
           is_duplicate ==
               content_hash \in DOMAIN DictGet(cleaned, identifier, <<>>)
       IN  IF is_duplicate
           THEN /\ recent_hashes' =
                      [cleaned EXCEPT ![identifier][content_hash] = clock]
                /\ th_result' = [th_result EXCEPT ![t] =
                      ContentValidationResult(FALSE, "DUPLICATE_SUBMISSION")]
                /\ th_pc' = [th_pc EXCEPT ![t] = "idle"]
           ELSE /\ recent_hashes' = cleaned
                /\ th_pc' = [th_pc EXCEPT ![t] = "_record_submission"]
                /\ UNCHANGED th_result
    /\ UNCHANGED <<clock, th_now, th_arg, accepts, duplicateRest>>

\* _check_duplicate under self._hash_lock, and the DUPLICATE_SUBMISSION return
CheckDuplicate(t) ==
    /\ th_pc[t] = "_check_duplicate"
    /\ LET identifier == th_arg[t].identifier
           content_hash == compute_content_hash(th_arg[t].content)
           cleaned ==
               IF identifier \in DOMAIN recent_hashes
               THEN [recent_hashes EXCEPT ![identifier] =
                        CleanHashes(recent_hashes[identifier], th_now[t])]
               ELSE recent_hashes
           is_duplicate ==
               content_hash \in DOMAIN DictGet(cleaned, identifier, <<>>)
       IN  /\ recent_hashes' = cleaned
           /\ IF is_duplicate
              THEN /\ th_result' = [th_result EXCEPT ![t] =
                         ContentValidationResult(FALSE,
                                                 "DUPLICATE_SUBMISSION")]
                   /\ th_pc' = [th_pc EXCEPT ![t] = "idle"]
              ELSE /\ th_pc' = [th_pc EXCEPT ![t] = "_record_submission"]
                   /\ UNCHANGED th_result
    /\ UNCHANGED <<clock, th_now, th_arg, accepts, duplicateRest>>

\* _record_submission under self._hash_lock, and the valid return
RecordSubmission(t) ==
    /\ th_pc[t] = "_record_submission"
    /\ LET identifier == th_arg[t].identifier
           content_hash == compute_content_hash(th_arg[t].content)
           hashes == DictGet(recent_hashes, identifier, <<>>)
           key == <<identifier, content_hash>>
       IN  /\ recent_hashes' =
                 [i \in DOMAIN recent_hashes \cup {identifier} |->
                     IF i = identifier
                     THEN [h \in DOMAIN hashes \cup {content_hash} |->
                             IF h = content_hash THEN clock ELSE hashes[h]]
                     ELSE recent_hashes[i]]
           /\ accepts' =
                 [k \in DOMAIN accepts \cup {key} |->
                     IF k = key
                     THEN LET old == DictGet(accepts, key, <<>>)
                          IN  IF old = <<>> THEN <<clock>>
                              ELSE <<Last(old), clock>>
                     ELSE accepts[k]]
    /\ th_result' = [th_result EXCEPT ![t] =
                        ContentValidationResult(TRUE, "NONE")]
    /\ th_pc' = [th_pc EXCEPT ![t] = "idle"]
    /\ UNCHANGED <<clock, th_now, th_arg, duplicateRest>>

DuplicateNext ==
    \/ \E t \in threads : ValidateContent(t)
    \/ \E t \in threads : CheckDuplicate(t)
    \/ \E t \in threads : RecordSubmission(t)
    \/ Tick

\* one caller: the calls follow one another
DuplicateSpec == DuplicateInit({1}, SubmitterIds) /\ [][DuplicateNext]_vars

\* two callers for one client: their calls overlap
ConcurrentDuplicateSpec ==
    DuplicateInit({1, 2}, {None, "10.0.0.1"}) /\ [][DuplicateNext]_vars





(***************************************************************************)
(* GeminiExtractionService._extract_with_gemini, called any number of      *)
(* times on one service constructed with any number of API keys.  Each     *)
(* API call returns a response or raises; an error is given by its text    *)
(* and the indicator substrings the lower-cased text contains.  Keys are   *)
(* numbered from 0 as current_key_index numbers them.                      *)
(***************************************************************************)
MAX_RETRIES == 3

ApiKeyLists == { [i \in 1..n |-> i - 1] : n \in 0..MaxKeys }

GeminiErrors ==
    { [text |-> "429 resource_exhausted: quota exceeded",
       has |-> {"quota", "429"}],
      [text |-> "503 unavailable", has |-> {}] }

\* _get_client with no key configured
NoKeysError == [text |-> "no gemini api keys configured", has |-> {}]

\* '"quota" in error_str or "rate" in error_str or "429" in error_str'
IsQuotaError(e) == e.has \cap {"quota", "rate", "429"} # {}

ExtractionResult(success, error, error_message) ==
    [success |-> success, error |-> error, error_message |-> error_message]

\* the call in progress: attempt is the loop variable, called the keys the
\* API was called with, in order, only_quota whether every failure so far
\* was a quota error
Extraction(position, attempt_no, called, only_quota, res) ==
    [pc |-> position, attempt |-> attempt_no, called |-> called,
     only_quota |-> only_quota, result |-> res]

\* _rotate_api_key: 'self.current_key_index < len(self.api_keys) - 1'
CanRotate(keys, index) == index < Len(keys) - 1

GeminiInit ==
    /\ pc = "idle"
    /\ callbacks = <<>>
    /\ FreshRun
    /\ HandlerUnused
    /\ SelectionUnused
    /\ LimiterUnused
    /\ DuplicateUnused
    /\ clock = 0
    /\ threads = {}
    /\ submitters = {}
    /\ th_pc = <<>>
    /\ th_now = <<>>
    /\ th_arg = <<>>
    /\ th_result = <<>>
    /\ api_keys \in ApiKeyLists
    /\ current_key_index = 0
    /\ extraction = Extraction("idle", 0, <<>>, TRUE, NoneRec)

geminiRest ==
    <<pipelineVars, retryLocals, handlerVars, selectionVars, clock, threads,
      submitters, threadVars, limiterVars, duplicateVars>>

\* _extract_with_gemini is entered: 'for attempt in range(self.MAX_RETRIES)'
ExtractWithGemini ==
    /\ extraction.pc \in {"idle", "returned"}
    /\ extraction' = Extraction("call", 0, <<>>, TRUE, NoneRec)
    /\ UNCHANGED <<api_keys, current_key_index, geminiRest>>

\* the end of one pass of the loop that did not return: the next pass, or
\* 'Max retries exceeded' after the last
NextAttempt(ext) ==
    IF ext.attempt + 1 < MAX_RETRIES
    THEN [ext EXCEPT !.attempt = @ + 1]
    ELSE [ext EXCEPT !.pc = "returned",
                     !.result = ExtractionResult(FALSE, "API_ERROR",
                                                 "Max retries exceeded")]

\* 'except Exception as e' of one pass
HandleApiError(ext, e) ==
    IF IsQuotaError(e)
    THEN IF CanRotate(api_keys, current_key_index)
         THEN /\ current_key_index' = current_key_index + 1
              /\ extraction' = NextAttempt(ext)
         ELSE /\ extraction' =
                    [ext EXCEPT !.pc = "returned",
                                !.result = ExtractionResult(
                                    FALSE, "QUOTA_EXCEEDED",
                                    "All API keys exhausted quota")]
              /\ UNCHANGED current_key_index
    ELSE /\ extraction' =
               IF ext.attempt < MAX_RETRIES - 1
               THEN [NextAttempt(ext) EXCEPT !.only_quota = FALSE]
               ELSE [ext EXCEPT !.pc = "returned",
                                !.only_quota = FALSE,
                                !.result = ExtractionResult(FALSE, "API_ERROR",
                                                            e.text)]
         /\ UNCHANGED current_key_index

\* one pass of the loop: _get_client, generate_content, _parse_response,
\* and the except clause with its sleep
GeminiCall ==
    /\ extraction.pc = "call"
    /\ IF api_keys = <<>>
       THEN HandleApiError(extraction, NoKeysError)
       ELSE LET tried == [extraction EXCEPT
                            !.called = Append(@, api_keys[current_key_index + 1])]
            IN  \/ /\ extraction' =
                         [tried EXCEPT !.pc = "returned",
                                       !.result = ExtractionResult(TRUE, "NONE", "")]
                   /\ UNCHANGED current_key_index
                \/ \E e \in GeminiErrors : HandleApiError(tried, e)
    /\ UNCHANGED <<api_keys, geminiRest>>

GeminiNext ==
    \/ ExtractWithGemini
    \/ GeminiCall

GeminiSpec == GeminiInit /\ [][GeminiNext]_vars

(***************************************************************************)
(* Properties of process().                                                *)
(***************************************************************************)
Done == pc = "done"
Succeeded == result # NoneRec /\ result.success
Failed == result # NoneRec /\ ~result.success

RateLimiterDenied == rate_limit_result # NoneRec /\ ~rate_limit_result.allowed
FilenameRejected == filename_result # NoneRec /\ ~filename_result.is_safe
FileValid == validation_result # NoneRec /\ validation_result.is_valid
FileInvalid == validation_result # NoneRec /\ ~validation_result.is_valid

\* position of a stage in the order of the pipeline
StageRank(stage) ==
    CASE stage = "validation" -> 1
      [] stage = "ocr" -> 2
      [] stage = "ai_analysis" -> 3
      [] stage = "component_selection" -> 4
      [] stage = "layout_generation" -> 5
      [] stage = "complete" -> 6
      [] stage = "error" -> 7

StagesEmitted == {events[i].stage : i \in 1..Len(events)}

C3_EscapedExceptionEmitsError ==
    (Done /\ raised # NoError)
    => /\ events # <<>>
       /\ Last(events).stage = "error"
       /\ Failed
       /\ result.error_message = Msg(raised.msg)

\* C4: a failing persistence call does not change the outcome: a run in
\* which a database call raised (it had passed validation, so it would have
\* succeeded otherwise) still returns the success result.
C4_PersistenceFailureHarmless ==
    (Done /\ persist_failed) => Succeeded

\* C5: when the rate limiter denies the call, process() returns a failure
\* with the retry-after message and nothing else happens: no event, no
\* record, no validation, extraction or analysis call.
C5_RateLimitDenialStopsRun ==
    RateLimiterDenied
    => /\ Done
       /\ Failed
       /\ result.error_message =
             RateLimitMessage(rate_limit_result.retry_after_seconds)
       /\ events = <<>>
       /\ deliveries = <<>>
       /\ resume = NoneRec
       /\ processing_result = NoneRec
       /\ calls = NoCalls

\* C5 witness: a denied call has returned although observers are registered
C5_Witness == RateLimiterDenied /\ Done /\ callbacks # <<>>

\* C6: when the filename is rejected or the file is reported invalid, the
\* run returns a failure and stops at validation: only VALIDATION events
\* exist and the extraction and analysis collaborators are not invoked.
C6_ValidationFailureStopsRun ==
    (FilenameRejected \/ FileInvalid)
    => /\ Done
       /\ Failed
       /\ StagesEmitted \subseteq {"validation"}
       /\ calls.ocr = 0
       /\ calls.analysis = 0
       /\ calls.selection = 0

\* C6 witness: the file validator rejected the file after the first event
C6_Witness == FileInvalid /\ Done /\ Len(events) = 1

C10_DeliveryToAllObservers ==
    LET n == Len(callbacks)
        complete == IF cbIndex = 0 THEN Len(events) ELSE Len(events) - 1
        partial == IF cbIndex = 0 THEN 0 ELSE cbIndex - 1
    IN  /\ Len(deliveries) = complete * n + partial
        /\ \A k \in 1..Len(deliveries) :
              deliveries[k] = [observer |-> callbacks[((k - 1) % n) + 1],
                               event |-> ((k - 1) \div n) + 1]
        /\ Failed => \/ RateLimiterDenied
                     \/ FilenameRejected
                     \/ FileInvalid
                     \/ raised.kind \in {"AttributeError", "DatabaseError"}

\* C10 witness: the first observer raised and the second one still got the
\* same event
C10_Witness ==
    /\ Len(callbacks) >= 2
    /\ cbIndex = 0
    /\ callbacks[1] \in cbErrors
    /\ deliveries # <<>>
    /\ Last(deliveries) = [observer |-> callbacks[Len(callbacks)],
                           event |-> Len(events)]
    /\ ~Done

(***************************************************************************)
(* Properties of component selection (SelectionSpec).                      *)
(***************************************************************************)
\* the order values of a component list are 0..n-1 in list order
OrdersInListOrder(comps) ==
    \A i \in 1..Len(comps) : comps[i].order = i - 1

\* C11: for every category (the four known ones, a missing and an
\* unrecognised one) and every profile, the list _select_components returns
\* is not empty and its order values are 0..n-1 in list order.
C11_SelectionOrders ==
    selected_by = "_select_components" =>
        /\ Len(components) > 0
        /\ OrdersInListOrder(components)
        /\ Cardinality({components[i].order : i \in 1..Len(components)})
             = Len(components)

\* C11 witness: components selected for a profile that has no category and
\* no other field
C11_Witness ==
    /\ selected_by = "_select_components"
    /\ partial_profile = EmptyDict
    /\ Len(components) = 4

\* C12: for every category value and every partial profile the fallback
\* generators return exactly 4 components with order 0,1,2,3 whose props
\* have every key required for the component's type.
C12_FallbackComponentsValid ==
    selected_by \in {"get_fallback_components_for_category",
                     "get_default_fallback_components"} =>
        /\ Len(components) = 4
        /\ OrdersInListOrder(components)
        /\ \A i \in 1..Len(components) :
              required_props(components[i].type)
                 \subseteq DOMAIN components[i].props

\* C12 witness: technical fallback components built from an empty profile
C12_Witness ==
    /\ selected_by = "get_fallback_components_for_category"
    /\ category = "technical"
    /\ partial_profile = EmptyDict
    /\ components[1].type = "tool_hero_terminal"
    /\ components[1].props["name"] = "Portfolio User"

(***************************************************************************)
(* Properties of RetryHandler and ErrorClassifier (RetrySpec).             *)
(***************************************************************************)
Returned == hdl_pc = "returned"
\* the execution returned the operation's own result
OperationSucceeded == Returned /\ hdl_result.last_error = NoError
\* every call of the operation raised and the execution has returned
EndedInFailure == Returned /\ hdl_result.last_error # NoError
FallbackEnabled == fallback # NoneRec /\ fallback.enable_fallback
\* the error's kind is in the configured allowlist
Allowlisted(e) == IsInstance(e, config.retryable_exceptions)
\* the last error is one the handler retries while retries remain
LastErrorRetryable ==
    Allowlisted(last_error) \/ error_category \in {"transient", "rate_limited"}

\* C13 (as stated): whatever the errors are, an operation that fails on every
\* call has been invoked exactly max_retries + 1 times when
\* execute_with_retry returns, and the outcome reports attempts =
\* max_retries + 1.
C13_AlwaysFailingInvokedRPlus1 ==
    EndedInFailure =>
        /\ op_calls = config.max_retries + 1
        /\ hdl_result.attempts = config.max_retries + 1

\* C13 (amended): an operation that fails on every call with errors the
\* handler retries (allowlisted, Transient or RateLimited) has been invoked
\* exactly max_retries + 1 times when execute_with_retry returns, with
\* attempts = max_retries + 1; an error of any other kind ends the execution
\* at the call that raised it, after at most max_retries + 1 calls, and the
\* outcome reports the number of calls made.
C13_RetryableInvokedRPlus1 ==
    EndedInFailure =>
        /\ hdl_result.attempts = op_calls
        /\ op_calls <= config.max_retries + 1
        /\ LastErrorRetryable => op_calls = config.max_retries + 1

\* C13 witness: three failing calls under max_retries = 2, all retryable
C13_Witness ==
    /\ EndedInFailure
    /\ LastErrorRetryable
    /\ config.max_retries = 2
    /\ op_calls = 3

\* what the contract says decides a retry after failed attempt number a
RetryCondition ==
    /\ attempt < config.max_retries
    /\ \/ Allowlisted(last_error)
       \/ error_category \in {"transient", "rate_limited"}

\* C14: after a failed attempt the handler sleeps and retries exactly when
\* attempt < max_retries and the error is allowlisted or classified Transient
\* or RateLimited; in every other case the failure ends the loop.
C14_RetryIff ==
    /\ hdl_pc = "sleep" => RetryCondition
    /\ EndedInFailure => ~RetryCondition
    /\ last_error # NoError => hdl_pc \in {"sleep", "call", "returned"}
    /\ (last_error # NoError /\ hdl_pc = "call") => attempt <= config.max_retries

\* C14 witness: a first failure was retried and a second one, of a kind that
\* is not retried, ended the loop although retries remained
C14_Witness ==
    /\ EndedInFailure
    /\ op_calls = 2
    /\ attempt < config.max_retries
    /\ ~LastErrorRetryable

\* C15: when the loop ends in failure, an enabled fallback gives success=true
\* with the factory's value (if a factory is set) or else the fixed value, and
\* the last error and its category; without an enabled fallback the outcome
\* is success=false, no value, and the last error.  max_retries = 0 included.
C15_ExhaustionOutcome ==
    EndedInFailure =>
        /\ hdl_result.last_error = last_error
        /\ hdl_result.error_category = error_category
        /\ IF FallbackEnabled
           THEN /\ hdl_result.success
                /\ hdl_result.value = IF fallback.has_factory THEN FactoryValue
                                      ELSE FixedValue
           ELSE /\ ~hdl_result.success
                /\ hdl_result.value = NoneRec

\* C15 witness: max_retries = 0, the first failure is terminal and the
\* factory's value is returned as a success
C15_Witness ==
    /\ EndedInFailure
    /\ config.max_retries = 0
    /\ op_calls = 1
    /\ FallbackEnabled /\ fallback.has_factory
    /\ hdl_result.success /\ hdl_result.value = FactoryValue

\* C16: the fallback factory is not invoked while the loop runs nor in an
\* execution in which an attempt succeeds; it is invoked exactly once in an
\* execution that ends in failure with an enabled fallback that has a factory.
C16_FactoryLazy ==
    /\ ~Returned => factory_calls = 0
    /\ OperationSucceeded => factory_calls = 0
    /\ EndedInFailure =>
          factory_calls = IF FallbackEnabled /\ fallback.has_factory
                          THEN 1 ELSE 0

\* C16 witness: two retries slept through, then the one factory call
C16_Witness ==
    /\ EndedInFailure
    /\ op_calls = 3
    /\ factory_calls = 1

\* C17: under the Exponential strategy the delay computed after failed
\* attempt a is min(base * 2^a, max_delay).
C17_ExponentialDelay ==
    (hdl_pc = "sleep" /\ config.strategy = "exponential") =>
        delay = Min(config.base_delay * 2^attempt, config.max_delay)

\* C17 witness: the second backoff of base 2000 is capped at max_delay 3000
C17_Witness ==
    /\ hdl_pc = "sleep"
    /\ config.strategy = "exponential"
    /\ attempt = 1
    /\ config.base_delay * 2^attempt > config.max_delay
    /\ delay = config.max_delay

\* bounds of the jittered delay before capping
JitterLow == config.base_delay * 2^attempt
JitterHigh == JitterLow + (JitterLow * config.jitter_percent) \div 100

\* C18: under the Jittered strategy the delay is a value between base * 2^a
\* and base * 2^a * (1 + jitter_factor), capped at max_delay; the returned
\* delay never exceeds max_delay.
C18_JitteredDelay ==
    (hdl_pc = "sleep" /\ config.strategy = "jittered") =>
        /\ delay <= config.max_delay
        /\ Min(JitterLow, config.max_delay) <= delay
        /\ delay <= Min(JitterHigh, config.max_delay)

\* C18 witness: a jittered delay strictly inside the interval, not capped
C18_Witness ==
    /\ hdl_pc = "sleep"
    /\ config.strategy = "jittered"
    /\ attempt = 1
    /\ JitterLow < delay /\ delay < JitterHigh
    /\ delay < config.max_delay

\* the last error is classified Unknown and its kind is not allowlisted
UnknownNotAllowlisted ==
    /\ last_error # NoError
    /\ error_category = "unknown"
    /\ ~Allowlisted(last_error)

\* C19 (as stated): an Unknown error whose kind is not allowlisted is retried
\* once: when the first call raises it and a retry is configured, the handler
\* sleeps and calls the operation again.
C19_UnknownRetriedOnce ==
    (op_calls = 1 /\ UnknownNotAllowlisted /\ config.max_retries >= 1) =>
        hdl_pc = "sleep"

\* C19 (amended): an Unknown error whose kind is not allowlisted is never
\* retried: it ends the loop at the call that raised it, and the fallback is
\* applied at once when one is enabled (a failure is returned otherwise).
C19_UnknownNotRetried ==
    UnknownNotAllowlisted =>
        /\ Returned
        /\ hdl_result.attempts = op_calls
        /\ hdl_result.last_error = last_error
        /\ hdl_result.success = FallbackEnabled

\* C19 witness: the first call raised an Unknown error with two retries
\* configured, and the fallback value was returned after that single call
C19_Witness ==
    /\ UnknownNotAllowlisted
    /\ Returned
    /\ config.max_retries = 2
    /\ op_calls = 1
    /\ hdl_result.success /\ hdl_result.value = FixedValue

HasRateLimitIndicator(e) == \E p \in RATE_LIMIT_MESSAGES : Contains(e.msg, p)
HasTransientIndicator(e) == \E p \in TRANSIENT_MESSAGES : Contains(e.msg, p)

\* C20: an error of a known-transient kind is Transient whatever its message;
\* otherwise a rate-limit indicator in the message gives RateLimited even if a
\* transient indicator is present too, a transient indicator alone gives
\* Transient, and a message with neither gives Unknown.
C20_ClassifyPrecedence ==
    last_error # NoError =>
        /\ IsInstance(last_error, TRANSIENT_EXCEPTIONS) =>
              error_category = "transient"
        /\ (~IsInstance(last_error, TRANSIENT_EXCEPTIONS)
              /\ HasRateLimitIndicator(last_error)) =>
              error_category = "rate_limited"
        /\ (~IsInstance(last_error, TRANSIENT_EXCEPTIONS)
              /\ ~HasRateLimitIndicator(last_error)
              /\ HasTransientIndicator(last_error)) =>
              error_category = "transient"
        /\ (~IsInstance(last_error, TRANSIENT_EXCEPTIONS)
              /\ ~HasRateLimitIndicator(last_error)
              /\ ~HasTransientIndicator(last_error)) =>
              error_category = "unknown"

\* C20 witness: a generic error whose message has both indicators was
\* classified RateLimited
C20_Witness ==
    /\ last_error # NoError
    /\ ~IsInstance(last_error, TRANSIENT_EXCEPTIONS)
    /\ HasRateLimitIndicator(last_error)
    /\ HasTransientIndicator(last_error)
    /\ error_category = "rate_limited"


(***************************************************************************)
(* Properties of RateLimiter.                                              *)
(***************************************************************************)
\* checks allowed whose 'now' lies in the 'seconds' ending at 'now'
AdmittedWithin(now, seconds) ==
    Cardinality({i \in 1..Len(admitted) :
                    now - seconds < admitted[i] /\ admitted[i] <= now})

\* thread t's check call returns in this step
CheckReturns(t) == th_pc[t] = "check" /\ th_pc'[t] = "idle"

BlockInForce(identifier, now) ==
    identifier \in DOMAIN blocked_until /\ now < blocked_until[identifier]

\* C21: with one caller, no interval of window_seconds holds more than
\* max_requests allowed checks: of the checks allowed, at most max_requests
\* are dated within the window_seconds that end at any one of them.
C21_WindowQuota ==
    \A i \in 1..Len(admitted) :
        AdmittedWithin(admitted[i], window_seconds) <= max_requests

\* the quota is used up and a further check in the window has been denied
\* with no block in the table
C21_Witness ==
    /\ blocked_until = <<>>
    /\ last_check >= 0
    /\ AdmittedWithin(last_check, window_seconds) = max_requests
    /\ \E t \in threads : th_result[t] # NoneRec /\ ~th_result[t].allowed

\* C22: a check that reads the clock window_seconds or more after the check
\* before it, with no block set by block() in the table, is allowed and
\* reports remaining_requests = max_requests - 1.
C22_QuotaResets ==
    [][\A t \in threads :
          (/\ CheckReturns(t)
           /\ last_check >= 0
           /\ th_now[t] - last_check >= window_seconds
           /\ ~manual_block)
          => (/\ th_result'[t].allowed
              /\ th_result'[t].remaining_requests = max_requests - 1)]_vars

\* such a check has returned
C22_Witness ==
    /\ quiet_check
    /\ \E t \in threads :
          /\ th_result[t] # NoneRec
          /\ th_result[t].allowed
          /\ th_result[t].remaining_requests = max_requests - 1

C24_RetryAfterIsRemaining ==
    [][\A t \in threads :
          (CheckReturns(t) /\ BlockInForce(th_arg[t], th_now[t]))
          => (/\ ~th_result'[t].allowed
              /\ th_result'[t].retry_after_seconds
                     = blocked_until[th_arg[t]] - th_now[t])]_vars

\* C24 (amended): a check made while a block is in force is denied, leaves
\* the block as it is and reports retry_after_seconds one more than the
\* whole seconds left until the block ends; a check made when the block has
\* ended removes it and, with fewer than burst_limit and max_requests allowed
\* checks in the two windows, is allowed.
C24_RetryAfterRoundedUp ==
    [][\A t \in threads :
          /\ (CheckReturns(t) /\ BlockInForce(th_arg[t], th_now[t]))
             => (/\ ~th_result'[t].allowed
                 /\ th_result'[t].retry_after_seconds
                        = (blocked_until[th_arg[t]] - th_now[t]) + 1
                 /\ blocked_until' = blocked_until)
          /\ (/\ CheckReturns(t)
              /\ th_arg[t] \in DOMAIN blocked_until
              /\ th_now[t] >= blocked_until[th_arg[t]]
              /\ AdmittedWithin(th_now[t], burst_window_seconds) < burst_limit
              /\ AdmittedWithin(th_now[t], window_seconds) < max_requests)
             => (/\ th_result'[t].allowed
                 /\ th_arg[t] \notin DOMAIN blocked_until')]_vars

\* the latest check was denied by a block that has two whole seconds left or
\* more
C24_Witness ==
    /\ last_check >= 0
    /\ \E i \in DOMAIN blocked_until, t \in threads :
          /\ blocked_until[i] - last_check >= 2
          /\ th_result[t] # NoneRec
          /\ ~th_result[t].allowed
          /\ th_result[t].retry_after_seconds
                 = (blocked_until[i] - last_check) + 1

\* C26: with several callers, of the checks allowed at most max_requests are
\* dated within the window_seconds, and at most burst_limit within the
\* burst_window_seconds, that end at any one of them.
C26_ConcurrentQuota ==
    \A i \in 1..Len(admitted) :
        /\ AdmittedWithin(admitted[i], window_seconds) <= max_requests
        /\ AdmittedWithin(admitted[i], burst_window_seconds) <= burst_limit

(***************************************************************************)
(* Properties of the duplicate detection of validate_content.              *)
(***************************************************************************)
\* the time at which the bytes of thread t's call were last recorded for its
\* identifier, -1 if they never were
LastAccepted(t) ==
    LET key == <<th_arg[t].identifier, compute_content_hash(th_arg[t].content)>>
    IN  IF key \in DOMAIN accepts THEN Last(accepts[key]) ELSE -1

\* C25: no two submissions of the same bytes by the same identifier are
\* accepted less than the duplicate window apart, however the calls overlap.
C25_OneAccepted ==
    \A key \in DOMAIN accepts :
        Len(accepts[key]) = 2
            => accepts[key][2] - accepts[key][1] >= hash_window_seconds

\* C27: with one caller, a validate_content call that reads the clock less
\* than the duplicate window after the same bytes were accepted for the same
\* identifier returns DUPLICATE_SUBMISSION and records nothing; one that
\* reads it when the window has elapsed since then is accepted.
C27_DuplicateWithinWindow ==
    [][\A t \in threads :
          /\ (/\ th_pc[t] = "_check_duplicate"
              /\ th_pc'[t] # "_check_duplicate"
              /\ LastAccepted(t) >= 0)
             => IF th_now[t] - LastAccepted(t) < hash_window_seconds
                THEN /\ th_pc'[t] = "idle"
                     /\ ~th_result'[t].is_valid
                     /\ th_result'[t].error = "DUPLICATE_SUBMISSION"
                ELSE th_pc'[t] = "_record_submission"
          /\ (th_pc[t] = "_record_submission" /\ th_pc'[t] = "idle")
             => (th_result'[t].is_valid /\ th_result'[t].error = "NONE")]_vars

\* the same bytes were accepted, accepted again after the window, and then
\* rejected as a duplicate
C27_Witness ==
    \E t \in threads :
        /\ th_pc[t] = "idle"
        /\ th_result[t] # NoneRec
        /\ th_result[t].error = "DUPLICATE_SUBMISSION"
        /\ LET key == <<th_arg[t].identifier,
                        compute_content_hash(th_arg[t].content)>>
           IN  /\ key \in DOMAIN accepts
               /\ Len(accepts[key]) = 2
               /\ accepts[key][2] - accepts[key][1] >= hash_window_seconds

(***************************************************************************)
(* Properties of validate_options and _select_theme.                       *)
(***************************************************************************)
OptionDefault(key) == IF key = "theme_preference" THEN "auto" ELSE "modern"
OptionChoices(key) ==
    IF key = "theme_preference" THEN VALID_THEMES ELSE VALID_COMPONENT_STYLES

\* the option 'key' of the argument is a string that, lower-cased and
\* stripped, is one of the valid choices
ValidChoice(key) ==
    /\ key \in DOMAIN options_arg.val
    /\ options_arg.val[key].type = "str"
    /\ StripStr(Lower(options_arg.val[key].val)) \in OptionChoices(key)

Replaced(key) == key \in DOMAIN options_arg.val /\ ~ValidChoice(key)

SafeOptions ==
    /\ options_result.is_safe
    /\ DOMAIN options_result.sanitized_value
          = {"theme_preference", "component_style"}
    /\ \A key \in {"theme_preference", "component_style"} :
          /\ options_result.sanitized_value[key] \in OptionChoices(key)
          /\ ~ValidChoice(key)
                => options_result.sanitized_value[key] = OptionDefault(key)
          /\ key \in options_result.warnings <=> Replaced(key)

\* C28 (as stated): validate_options returns a safe result with valid
\* choices, defaults for the invalid ones and one warning per replacement,
\* for every options input.
C28_AlwaysSafe == selected_by = "validate_options" => SafeOptions

\* C28 (amended): for every options input that is a dict, validate_options
\* returns a safe result with valid choices, defaults for the invalid ones
\* and one warning per replacement; for an input that is not a dict it
\* returns a result that is not safe, with the error INVALID_CHARACTERS.
C28_DictAlwaysSafe ==
    selected_by = "validate_options" =>
        IF options_arg.type = "dict" THEN SafeOptions
        ELSE /\ ~options_result.is_safe
             /\ options_result.error = "INVALID_CHARACTERS"

\* both choices of a dict were invalid and replaced, with two warnings
C28_Witness ==
    /\ selected_by = "validate_options"
    /\ options_arg.type = "dict"
    /\ Replaced("theme_preference") /\ Replaced("component_style")
    /\ options_result.is_safe
    /\ options_result.sanitized_value["theme_preference"] = "auto"
    /\ options_result.sanitized_value["component_style"] = "modern"
    /\ Cardinality(options_result.warnings) = 2

\* C29: _select_theme returns a value of ThemePalette for every theme
\* preference and every category.
C29_ThemeAlwaysValid == selected_by = "_select_theme" => theme \in ThemePalette

Occurrences(timestamps, ts) ==
    Cardinality({i \in 1..Len(timestamps) : timestamps[i] = ts})
NothingAdded(before, after) ==
    \A ts \in Range(after) : Occurrences(after, ts) <= Occurrences(before, ts)

\* C34: a check that is denied adds no timestamp to the identifier's list
\* (it may only drop expired ones), and a timestamp is added to a list only
\* by a check that is allowed.
C34_DeniedRecordsNothing ==
    [][/\ \A t \in threads :
             (CheckReturns(t) /\ ~th_result'[t].allowed)
             => \A i \in Identifiers : NothingAdded(requests[i], requests'[i])
       /\ (\E i \in Identifiers : ~NothingAdded(requests[i], requests'[i]))
          => \E t \in threads :
                /\ CheckReturns(t)
                /\ th_result'[t].allowed
                /\ Occurrences(requests'[th_arg[t]], th_now[t])
                      = Occurrences(requests[th_arg[t]], th_now[t]) + 1]_vars

\* the latest check was denied during a burst block, with the burst_limit
\* allowed timestamps still the only ones in the list
C34_Witness ==
    /\ ~manual_block
    /\ last_check >= 0
    /\ \E i \in DOMAIN blocked_until :
          /\ last_check < blocked_until[i]
          /\ Len(requests[i]) = burst_limit
    /\ \E t \in threads : th_result[t] # NoneRec /\ ~th_result[t].allowed

\* C35: with one caller, of the checks allowed at most burst_limit are dated
\* within the burst_window_seconds that end at any one of them.
C35_BurstQuota ==
    \A i \in 1..Len(admitted) :
        AdmittedWithin(admitted[i], burst_window_seconds) <= burst_limit

\* burst_limit checks of one burst window were allowed and the next was not
C35_Witness ==
    /\ last_check >= 0
    /\ AdmittedWithin(last_check, burst_window_seconds) = burst_limit
    /\ AdmittedWithin(last_check, window_seconds) = burst_limit
    /\ \E t \in threads :
          /\ th_result[t] # NoneRec
          /\ ~th_result[t].allowed
          /\ th_result[t].retry_after_seconds = burst_window_seconds

\* C36: with one caller, a check made while a block is in force leaves
\* _blocked_until as it is, and the first check made when a block set by a
\* burst violation has ended removes the block and sets no new one.
C36_BlockNotExtended ==
    [][\A t \in threads :
          /\ (CheckReturns(t) /\ BlockInForce(th_arg[t], th_now[t]))
             => blocked_until' = blocked_until
          /\ (/\ CheckReturns(t)
              /\ ~manual_block
              /\ th_arg[t] \in DOMAIN blocked_until
              /\ th_now[t] >= blocked_until[th_arg[t]])
             => th_arg[t] \notin DOMAIN blocked_until']_vars

\* a check was denied by a burst block that an earlier check had set
C36_Witness ==
    /\ ~manual_block
    /\ last_check >= 0
    /\ \E i \in DOMAIN blocked_until, t \in threads :
          /\ last_check < blocked_until[i]
          /\ th_result[t] # NoneRec
          /\ ~th_result[t].allowed
          /\ th_result[t].retry_after_seconds
                 = (blocked_until[i] - last_check) + 1

(***************************************************************************)
(* Further properties of the duplicate detection of validate_content.      *)
(***************************************************************************)
\* C40: a lookup that returns DUPLICATE_SUBMISSION leaves the recorded time
\* of the bytes at the time of their last accepted submission, so the same
\* bytes from that identifier pass the lookup once the duplicate window has
\* elapsed since that acceptance; and a lookup for an identifier from which
\* the bytes were never accepted passes, whoever else submitted them.
C40_RejectionKeepsTime ==
    [][\A t \in threads :
          (th_pc[t] = "_check_duplicate" /\ th_pc'[t] # "_check_duplicate")
             => LET identifier == th_arg[t].identifier
                    content_hash == compute_content_hash(th_arg[t].content)
                IN  /\ th_pc'[t] = "idle"
                        => /\ th_result'[t].error = "DUPLICATE_SUBMISSION"
                           /\ recent_hashes'[identifier][content_hash]
                                 = LastAccepted(t)
                           /\ accepts' = accepts
                    /\ (/\ LastAccepted(t) >= 0
                        /\ th_now[t] - LastAccepted(t) >= hash_window_seconds)
                        => th_pc'[t] = "_record_submission"
                    /\ LastAccepted(t) < 0
                        => th_pc'[t] = "_record_submission"]_vars

\* bytes accepted from one identifier and, within the duplicate window, from
\* another are accepted again from the first after a rejected resubmission
C40_Witness ==
    \E t \in threads :
        /\ th_pc[t] = "_record_submission"
        /\ th_result[t] # NoneRec
        /\ th_result[t].error = "DUPLICATE_SUBMISSION"
        /\ LastAccepted(t) >= 0
        /\ \E other \in SubmitterIds \ {th_arg[t].identifier} :
              LET key == <<other, compute_content_hash(th_arg[t].content)>>
              IN  /\ key \in DOMAIN accepts
                  /\ Last(accepts[key]) >= LastAccepted(t)
                  /\ Last(accepts[key]) - LastAccepted(t)
                        < hash_window_seconds

(***************************************************************************)
(* Further properties of RetryHandler.                                     *)
(***************************************************************************)
\* C37: a successful outcome of execute_with_retry has no last_error exactly
\* when its value is the one the operation returned, whatever failed before,
\* and has the last raised error exactly when its value is the fallback's.
C37_LastErrorTellsFallback ==
    (hdl_result # NoneRec /\ hdl_result.success)
        => /\ (hdl_result.last_error = NoError)
                 <=> (hdl_result.value = OperationValue)
           /\ (hdl_result.last_error # NoError)
                 <=> /\ fallback # NoneRec
                     /\ hdl_result.value \in {fallback.fallback_value,
                                               fallback.factory_value}
           /\ hdl_result.last_error \in {NoError, last_error}

\* the operation returned after a failed attempt: the local last_error is
\* set, the outcome's is not
C37_Witness ==
    /\ hdl_result # NoneRec
    /\ hdl_result.success
    /\ hdl_result.value = OperationValue
    /\ hdl_result.attempts > 1
    /\ last_error # NoError
    /\ fallback # NoneRec
    /\ fallback.enable_fallback

\* C38: given the same configuration, fallback, operation outcomes and
\* random.random() draws, execute_sync_with_retry returns the outcome
\* execute_with_retry returns: the same success flag, value, attempt count,
\* accumulated delay, last error and category; and it returns when the
\* other does.
C38_SyncSameOutcome ==
    /\ hdl_pc = "returned" => sync.result = hdl_result
    /\ hdl_pc \in {"call", "sleep"} => sync.result = NoneRec

\* an outcome reached through two jittered sleeps and the fallback
C38_Witness ==
    /\ hdl_pc = "returned"
    /\ config.strategy = "jittered"
    /\ sync.attempt = 2
    /\ sync.result.success
    /\ sync.result.last_error # NoError
    /\ sync.result.total_delay > 0

C33_FailoverThroughEveryKey ==
    [][/\ current_key_index' >= current_key_index
       /\ api_keys # <<>> => current_key_index' \in 0..(Len(api_keys) - 1)
       /\ (/\ extraction.pc = "call"
           /\ extraction'.pc = "returned"
           /\ extraction'.only_quota
           /\ ~extraction'.result.success)
          => /\ extraction'.result.error = "QUOTA_EXCEEDED"
             /\ Last(extraction'.called) = Len(api_keys) - 1
             /\ \A i \in 1..(Len(extraction'.called) - 1) :
                   extraction'.called[i + 1] = extraction'.called[i] + 1]_vars

====
